---- MODULE Spec2Model ----
(***************************************************************************)
(* The glthread offload engine of src/mesa/main/glthread.c: a producer     *)
(* (application) thread records commands into a ring of batches, flush     *)
(* hands the current batch to a single-worker job queue, finish drains.    *)
(*                                                                         *)
(* Every handler of glthread.c is a pure operator on a record s of the     *)
(* whole program state (the gl_context, the util_queue and both threads'   *)
(* positions); an action applies a handler up to its next blocking point   *)
(* (a full job queue, an unsignalled fence, the worker's exit) and a       *)
(* second action resumes it there.                                         *)
(*                                                                         *)
(* The job queue (util/u_queue.c), the record path and the per-command     *)
(* decode functions (glthread_marshal.h and the generated tables) are not  *)
(* part of glthread.c; they are modelled from their contracts.            *)
(*                                                                         *)
(* The second part models the fences and the queue submission of           *)
(* src/virtio/vulkan/vn_queue.c on the same record: the payloads of a      *)
(* fence and the sync file descriptors imported into them (SpecFence) and  *)
(* vn_queue_submit (SpecSubmit).                                           *)
(***************************************************************************)
EXTENDS Integers, Sequences, FiniteSets, TLC

\* ---------------------------------------------------------------- bounds
\* Ring size.  glthread.h sets 8; the ring protocol is parametric in it and
\* the model runs a smaller ring so that it wraps several times.
MARSHAL_MAX_BATCHES == 3
\* Capacity of one batch buffer in 8-byte units (the unit of used and pos,
\* which index a uint64_t buffer).  glthread.h gives a batch 8 KB; the model
\* runs batches of 64 bytes.
BatchCap == 8
\* Number of commands the application records in one run.
MaxCmds == 4
\* Number of commands recorded in one run of SpecCurrent and of FairSpec.
MaxShortCmds == 2
\* The sizes of the records, in 8-byte units: records of 32 and of 64 bytes.
CmdSizes == {4, 8}

N == MARSHAL_MAX_BATCHES
Ring == 0 .. (N - 1)
Threads == {"main", "worker"}

\* ------------------------------------- bounds of the venus queue model
\* Number of sync file descriptors the process opens.
MaxFds == 2
\* Largest submitCount of a vkQueueSubmit.
MaxSubmitBatches == 2

VK_NULL_HANDLE == 0
\* The VkFence handles of the application.
FenceIds == {1, 2}
\* The semaphores of the scene a submission is made in (SceneSems below).
SemIds == {1, 2, 3, 4}
Fds == 0 .. (MaxFds - 1)
\* A vn_sync_payload: its type and, for an imported sync file, the fd.
ZeroPayload == [type |-> "INVALID", fd |-> 0]
\* No object behind the handle (not created yet, or freed).
NoFence == [alive |-> FALSE, is_external |-> FALSE, feedback_slot |-> FALSE,
            permanent |-> ZeroPayload, temporary |-> ZeroPayload,
            payload |-> "permanent", ring_idx |-> 0]
NoSem == [alive |-> FALSE, is_external |-> FALSE,
          permanent |-> ZeroPayload, temporary |-> ZeroPayload,
          payload |-> "permanent", ring_idx |-> 0]
\* A descriptor number: st is "unused" (not open), "driver" (open, owned by
\* the payload it was imported into), "app" (open, owned by the
\* application) or "closed"; imports counts the times it was imported into
\* a payload, closes the close() calls on it and exports the times
\* vkGetFenceFdKHR returned it.
UnusedFd == [st |-> "unused", imports |-> 0, closes |-> 0, exports |-> 0]
\* The ring index of the queue the model submits to (fences and semaphores
\* start with ring_idx 0).
QueueRingIdx == 1
\* The arguments of a vkQueueSubmit (submitCount, pSubmits, fence), the
\* vn_queue_submission built from them (batch_type .. wsi_mem) and what
\* the call did: sent is how the submission went to the renderer ("none",
\* "sync": vn_call_vkQueueSubmit*, "async": vn_async_vkQueueSubmit*), idle
\* how the submission of vn_QueueWaitIdle went, result the VkResult.
NoSubmit == [state |-> "none", submitCount |-> 0, pSubmits |-> <<>>,
             fence |-> VK_NULL_HANDLE,
             batch_type |-> "none", fence_handle |-> VK_NULL_HANDLE,
             batch_count |-> 0, batches |-> <<>>, synchronous |-> FALSE,
             has_feedback_fence |-> FALSE, wsi_mem |-> FALSE,
             sent |-> "none", idle |-> "none", result |-> "none"]

VARIABLES
    enabled,        \* glthread->enabled
    used,           \* glthread->used
    next,           \* glthread->next
    last,           \* glthread->last
    batches,        \* glthread->batches[i]: used, fence (TRUE = signalled), buffer
    stats,          \* glthread->stats
    lost,           \* ctx->CurrentServerDispatch == ctx->ContextLost
    mutex,          \* holder of ctx->Shared->BufferObjects' mutex and of TexMutex
    BufferObjectsLocked,    \* ctx->BufferObjectsLocked
    TexturesLocked,         \* ctx->TexturesLocked
    queue,          \* util_queue: the jobs waiting, oldest first
    qstate,         \* util_queue: "none" | "alive" | "killed" | "destroyed"
    init_fence,     \* the local fence of _mesa_glthread_init (TRUE = signalled)
    wjob,           \* the job the worker took
    um,             \* per thread: the frame of glthread_unmarshal_batch, or NoFrame
    pc,             \* per thread: where it is.  main: "app" or the point it
                    \* waits at; worker: "none", "idle", "run", "signal", "exited"
    rec_size,       \* the record being allocated (0: none)
    stack,          \* producer thread: handlers to return into, innermost first
    synced,         \* finish's local
    dispatch,       \* finish's local: the table saved at line 311 ("none": unset)
    CurrentClientDispatch,  \* ctx->CurrentClientDispatch: the table's name
    glapi,          \* per thread: the thread's current dispatch table and
                    \* whether it has a current context (_glapi_set_*)
    VAOs,           \* glthread->VAOs exists
    MarshalExec,    \* ctx->MarshalExec is allocated
    exec,           \* commands decoded so far, in order (observable effect)
    nrec,           \* commands recorded so far
    LastProgramChangeBatch,     \* glthread->...: a ring index or -1
    LastDListChangeBatchIndex,  \* glthread->...: a ring index or -1
    LastCallList,   \* glthread->LastCallList: NULL or the place of a record
    LastBindBuffer, \* glthread->LastBindBuffer: NULL or the place of a record
    rec_kind,       \* the record being allocated: what its marshal function
                    \* caches ("plain": nothing)
    num_L3_caches,  \* util_get_cpu_caps()->num_L3_caches
    set_context_param,      \* ctx->pipe->set_context_param is not NULL
    pin_thread_counter,     \* glthread->pin_thread_counter
    cpu,            \* what util_get_current_cpu() answers to the call under way
    thread_affinity,        \* queue.threads[0]: the cache domain whose CPUs
                            \* it is bound to, or AllCpus
    pin_param,      \* the backend: the PIN_THREADS_TO_L3_CACHE value it was
                    \* given last, or NoPin
    nunits,         \* buffer units recorded so far
    fences,         \* venus: the vn_fence objects, by handle
    sems,           \* venus: the vn_semaphore objects, by handle
    fds,            \* venus: the sync file descriptors of the process
    submit,         \* venus: the vn_queue_submission of the last vkQueueSubmit
    NO_ASYNC_QUEUE_SUBMIT, \* venus: VN_PERF(NO_ASYNC_QUEUE_SUBMIT)
    ev              \* what the last step did (history)

\* Everything but the history variable.
state == <<enabled, used, next, last, batches, stats, lost, mutex,
           BufferObjectsLocked, TexturesLocked, queue, qstate, init_fence, wjob, um, pc, rec_size, stack, synced, exec, nrec,
           dispatch, CurrentClientDispatch, glapi, VAOs, MarshalExec,
           LastProgramChangeBatch,
           LastDListChangeBatchIndex,
           LastCallList,
           LastBindBuffer,
           rec_kind,
           num_L3_caches,
           set_context_param,
           pin_thread_counter,
           cpu,
           thread_affinity,
           pin_param,
           nunits,
           fences,
           sems,
           fds,
           submit,
           NO_ASYNC_QUEUE_SUBMIT>>

vars == <<enabled, used, next, last, batches, stats, lost, mutex,
          BufferObjectsLocked, TexturesLocked, queue, qstate, init_fence, wjob, um, pc, rec_size, stack, synced, exec, nrec,
          dispatch, CurrentClientDispatch, glapi, VAOs, MarshalExec,
          LastProgramChangeBatch,
          LastDListChangeBatchIndex,
          LastCallList,
          LastBindBuffer,
          rec_kind,
          num_L3_caches,
          set_context_param,
          pin_thread_counter,
          cpu,
          thread_affinity,
          pin_param,
          nunits,
          fences,
          sems,
          fds,
          submit,
          NO_ASYNC_QUEUE_SUBMIT, ev>>

\* The program state as one record, for the handlers to transform.
S ==
    [enabled |-> enabled, used |-> used, next |-> next, last |-> last,
     batches |-> batches, stats |-> stats, lost |-> lost, mutex |-> mutex,
     BufferObjectsLocked |-> BufferObjectsLocked,
     TexturesLocked |-> TexturesLocked, queue |-> queue,
     qstate |-> qstate, init_fence |-> init_fence, wjob |-> wjob, um |-> um,
     pc |-> pc, rec_size |-> rec_size, stack |-> stack, synced |-> synced,
     exec |-> exec, nrec |-> nrec, dispatch |-> dispatch,
     CurrentClientDispatch |-> CurrentClientDispatch, glapi |-> glapi,
     VAOs |-> VAOs, MarshalExec |-> MarshalExec,
     LastProgramChangeBatch |-> LastProgramChangeBatch,
     LastDListChangeBatchIndex |-> LastDListChangeBatchIndex,
     LastCallList |-> LastCallList,
     LastBindBuffer |-> LastBindBuffer,
     rec_kind |-> rec_kind,
     num_L3_caches |-> num_L3_caches,
     set_context_param |-> set_context_param,
     pin_thread_counter |-> pin_thread_counter,
     cpu |-> cpu,
     thread_affinity |-> thread_affinity,
     pin_param |-> pin_param,
     nunits |-> nunits,
     fences |-> fences,
     sems |-> sems,
     fds |-> fds,
     submit |-> submit,
     NO_ASYNC_QUEUE_SUBMIT |-> NO_ASYNC_QUEUE_SUBMIT,
     ev |-> {}]

Assign(s) ==
    /\ enabled' = s.enabled /\ used' = s.used /\ next' = s.next
    /\ last' = s.last /\ batches' = s.batches /\ stats' = s.stats
    /\ lost' = s.lost /\ queue' = s.queue /\ qstate' = s.qstate
    /\ mutex' = s.mutex /\ BufferObjectsLocked' = s.BufferObjectsLocked
    /\ TexturesLocked' = s.TexturesLocked
    /\ init_fence' = s.init_fence /\ wjob' = s.wjob /\ um' = s.um
    /\ pc' = s.pc /\ rec_size' = s.rec_size
    /\ stack' = s.stack /\ synced' = s.synced /\ exec' = s.exec
    /\ nrec' = s.nrec /\ dispatch' = s.dispatch
    /\ CurrentClientDispatch' = s.CurrentClientDispatch /\ glapi' = s.glapi
    /\ VAOs' = s.VAOs /\ MarshalExec' = s.MarshalExec
    /\ LastProgramChangeBatch' = s.LastProgramChangeBatch
    /\ LastDListChangeBatchIndex' = s.LastDListChangeBatchIndex
    /\ LastCallList' = s.LastCallList
    /\ LastBindBuffer' = s.LastBindBuffer
    /\ rec_kind' = s.rec_kind
    /\ num_L3_caches' = s.num_L3_caches
    /\ set_context_param' = s.set_context_param
    /\ pin_thread_counter' = s.pin_thread_counter
    /\ cpu' = s.cpu
    /\ thread_affinity' = s.thread_affinity
    /\ pin_param' = s.pin_param
    /\ nunits' = s.nunits
    /\ fences' = s.fences
    /\ sems' = s.sems
    /\ fds' = s.fds
    /\ submit' = s.submit
    /\ NO_ASYNC_QUEUE_SUBMIT' = s.NO_ASYNC_QUEUE_SUBMIT
    /\ ev' = s.ev

Ev(s, e) == [s EXCEPT !.ev = @ \cup {e}]
\* A frame keeps the handler to return into and glthread->used at its entry.
Push(s, f) == [s EXCEPT !.stack = <<[fn |-> f, used |-> s.used]>> \o @]
Pop(s) == [s EXCEPT !.stack = Tail(@)]

ZeroSlot == [cmd_id |-> 0, cmd_size |-> 0]
\* Line 224: the affinity is looked at on every PinPeriod-th flush.
PinPeriod == 128
\* The CPUs util_get_current_cpu() may name; -1: the CPU is not known.
Cpus == {-1, 0, 1, 2}
U_CPU_INVALID_L3 == 2^16 - 1
\* util_get_cpu_caps()->cpu_to_L3: CPU 2 belongs to no known cache domain.
cpu_to_L3(c) == IF c \in {0, 1} THEN c ELSE U_CPU_INVALID_L3
\* A thread that is bound to no cache domain; a backend that was told none.
AllCpus == -1
NoPin == -1
\* A pointer to a record is the batch and the offset of the record.
NULL == [batch |-> -1, pos |-> -1]
NoFrame == [phase |-> "out", batch |-> 0, pos |-> 0, used |-> 0]
NoJob == [fn |-> "none", batch |-> 0]
EmptyBuffer == [k \in 0 .. (BatchCap - 1) |-> ZeroSlot]

\* ctx->CurrentServerDispatch: the context's own table, or the table of a
\* lost context.
CurrentServerDispatch(s) == IF s.lost THEN "ContextLost" ELSE "Exec"

\* The context before _mesa_glthread_init, on any platform.
InitEngine ==
    /\ enabled = FALSE /\ used = 0 /\ next = 0 /\ last = 0
    /\ batches = [i \in Ring |->
                    [used |-> 0, fence |-> TRUE, fence_init |-> FALSE,
                     buffer |-> EmptyBuffer]]
    /\ stats = [num_batches |-> 0, num_offloaded_items |-> 0,
                num_direct_items |-> 0, num_syncs |-> 0]
    /\ mutex = [BufferObjects |-> "none", TexMutex |-> "none"]
    /\ BufferObjectsLocked = FALSE /\ TexturesLocked = FALSE
    /\ lost = FALSE /\ queue = <<>> /\ qstate = "none" /\ init_fence = TRUE
    /\ wjob = NoJob /\ um = [t \in Threads |-> NoFrame]
    /\ pc = [t \in Threads |-> IF t = "main" THEN "app" ELSE "none"]
    /\ rec_size = 0 /\ stack = <<>> /\ synced = FALSE
    /\ exec = <<>> /\ nrec = 0
    /\ dispatch = "none" /\ CurrentClientDispatch = "Exec"
    /\ glapi = [t \in Threads |-> [dispatch |-> "none", context |-> FALSE]]
    /\ VAOs = FALSE /\ MarshalExec = FALSE
    /\ LastProgramChangeBatch = 0
    /\ LastDListChangeBatchIndex = 0
    /\ LastCallList = NULL
    /\ LastBindBuffer = NULL
    /\ rec_kind = "plain"
    /\ cpu = 0
    /\ thread_affinity = AllCpus
    /\ pin_param = NoPin
    /\ nunits = 0
    /\ ev = {}

\* The venus device before the application created a fence or a semaphore.
InitVenus ==
    /\ fences = [f \in FenceIds |-> NoFence]
    /\ sems = [m \in SemIds |-> NoSem]
    /\ fds = [k \in Fds |-> UnusedFd]
    /\ submit = NoSubmit
    /\ NO_ASYNC_QUEUE_SUBMIT = FALSE

\* A platform with one L3 cache domain.
Init ==
    /\ InitEngine /\ InitVenus
    /\ num_L3_caches = 1 /\ set_context_param = FALSE
    /\ pin_thread_counter = 0

\* ------------------------------------------------------------ job queue
\* util_queue (util/u_queue.c): one worker thread, jobs taken oldest first,
\* at most max_jobs waiting; add_job waits for room when that many wait.

\* Mutant: a backlog as long as the ring minus one.
max_jobs_ring_minus_one == MARSHAL_MAX_BATCHES - 1

\* Mutant: a queue without room for any job.
max_jobs_none == MARSHAL_MAX_BATCHES - MARSHAL_MAX_BATCHES

\* Line 118: the backlog _mesa_glthread_init gives the queue.
max_jobs == MARSHAL_MAX_BATCHES - 2

UnmarshalJob(i) == [fn |-> "glthread_unmarshal_batch", batch |-> i]
InitJob == [fn |-> "glthread_thread_initialization", batch |-> 0]

util_queue_init(s) ==
    [s EXCEPT !.queue = <<>>, !.qstate = "alive", !.pc["worker"] = "idle"]

QueueFull(s) == Len(s.queue) >= max_jobs

\* Mutant: the job is appended without its fence being reset.
util_queue_add_job_keeps_fence(s, job) == [s EXCEPT !.queue = Append(@, job)]

\* util_queue_fence_reset + the job appended to the ring of jobs.
util_queue_add_job(s, job) ==
    LET r == IF job.fn = "glthread_unmarshal_batch"
             THEN [s EXCEPT !.batches[job.batch].fence = FALSE]
             ELSE [s EXCEPT !.init_fence = FALSE]
    IN  [r EXCEPT !.queue = Append(@, job)]

util_queue_fence_signal(s, job) ==
    IF job.fn = "glthread_unmarshal_batch"
    THEN [s EXCEPT !.batches[job.batch].fence = TRUE]
    ELSE [s EXCEPT !.init_fence = TRUE]

\* ------------------------------------------------------- dispatch adapter
\* _mesa_unmarshal_dispatch[cmd->cmd_id](ctx, cmd): executes the command and
\* returns the record's size.
unmarshal_dispatch(s, cmd) == [s EXCEPT !.exec = Append(@, cmd.cmd_id)]

\* --------------------------------------- glthread_thread_initialization
\* Lines 84-91: the worker gets the context as its current one.
glthread_thread_initialization(s) ==
    Ev([s EXCEPT !.glapi["worker"].context = TRUE], "thread_initialization")

\* ------------------------------------------- glthread_unmarshal_batch
\* Entry: the locals pos, used (lines 50-54).
unmarshal_enter(s, t, i) ==
    Ev([s EXCEPT !.um[t] = [phase |-> "enter", batch |-> i, pos |-> 0,
                            used |-> s.batches[i].used],
                 !.glapi[t].dispatch = CurrentServerDispatch(s)],
       "unmarshal_enter")

\* Lines 56-57: the buffer-object table's mutex, once it is free, and its flag.
unmarshal_lock(s, t) ==
    [s EXCEPT !.mutex.BufferObjects = t,
              !.BufferObjectsLocked = TRUE,
              !.um[t].phase = "lock_tex"]

\* Lines 58-59: the texture mutex, once it is free, and its flag.
unmarshal_lock_tex(s, t) ==
    [s EXCEPT !.mutex.TexMutex = t,
              !.TexturesLocked = TRUE,
              !.um[t].phase = "decode"]

\* Mutant: the loop advances by one fixed stride whatever the decode returns.
unmarshal_step_fixed_stride(s, t) ==
    LET f == s.um[t]
        cmd == s.batches[f.batch].buffer[f.pos]
    IN  [unmarshal_dispatch(s, cmd) EXCEPT !.um[t].pos = f.pos + 4]

\* One turn of the loop of lines 61-66.
unmarshal_step(s, t) ==
    LET f == s.um[t]
        cmd == s.batches[f.batch].buffer[f.pos]
    IN  [unmarshal_dispatch(s, cmd) EXCEPT !.um[t].pos = f.pos + cmd.cmd_size]

\* Lines 68-69: the texture mutex is given back.  The event tells whether the
\* table's mutex was still held at that point.
unmarshal_unlock_tex(s, t) ==
    Ev([s EXCEPT !.TexturesLocked = FALSE, !.mutex.TexMutex = "none"],
       IF s.mutex.BufferObjects = t THEN "tex_unlocked_first"
                                    ELSE "tex_unlocked_last")

\* Lines 70-71: the buffer-object table's mutex is given back.
unmarshal_unlock(s, t) ==
    Ev([s EXCEPT !.BufferObjectsLocked = FALSE, !.mutex.BufferObjects = "none"],
       IF s.mutex.TexMutex = t THEN "buffers_unlocked_first"
                               ELSE "buffers_unlocked_last")

\* Mutant: the two mutexes given back in the order they were taken.
unmarshal_release_same_order(s, t) ==
    unmarshal_unlock_tex(unmarshal_unlock(s, t), t)

\* Lines 68-71: the locks are given back in reverse order.
unmarshal_release(s, t) ==
    unmarshal_unlock(unmarshal_unlock_tex(s, t), t)

\* p_atomic_cmpxchg(&v, old, new): the value v has afterwards.
p_atomic_cmpxchg(v, old, new) == IF v = old THEN new ELSE v

\* Mutant: a batch is executed without being counted.
unmarshal_exit_no_count(s, t) ==
    LET f == s.um[t]
    IN  Ev([unmarshal_release(s, t) EXCEPT
                     !.batches[f.batch].used = 0,
                     !.batches[f.batch].buffer = EmptyBuffer,
                     !.LastProgramChangeBatch = p_atomic_cmpxchg(@, f.batch, -1),
                     !.LastDListChangeBatchIndex = p_atomic_cmpxchg(@, f.batch, -1),
                     !.um[t] = NoFrame],
           "unmarshal_exit")

\* Mutant: the two indices are reset whatever they hold.
unmarshal_exit_resets_always(s, t) ==
    LET f == s.um[t]
    IN  Ev([unmarshal_release(s, t) EXCEPT
                     !.batches[f.batch].used = 0,
                     !.batches[f.batch].buffer = EmptyBuffer,
                     !.LastProgramChangeBatch = -1,
                     !.LastDListChangeBatchIndex = -1,
                     !.stats.num_batches = @ + 1,
                     !.um[t] = NoFrame],
           "unmarshal_exit")

\* Lines 68-81: unlock, batch->used = 0, num_batches++.  With used back at 0
\* nothing of the buffer is live any more: the model drops its contents.
unmarshal_exit(s, t) ==
    LET f == s.um[t]
    IN  Ev([unmarshal_release(s, t) EXCEPT
                     !.batches[f.batch].used = 0,
                     !.batches[f.batch].buffer = EmptyBuffer,
                     !.LastProgramChangeBatch = p_atomic_cmpxchg(@, f.batch, -1),
                     !.LastDListChangeBatchIndex = p_atomic_cmpxchg(@, f.batch, -1),
                     !.stats.num_batches = @ + 1,
                     !.um[t] = NoFrame],
           "unmarshal_exit")

\* Lines 266-267 and 305-306: the two cached records are forgotten.  The
\* event tells that one of them was set.
clear_caches(s) ==
    LET r == [s EXCEPT !.LastCallList = NULL, !.LastBindBuffer = NULL] IN
    IF r = s THEN s ELSE Ev(r, "caches_cleared")

\* ------------------------------------------------------------ returns
\* The tail of a handler returns into the handler that called it.
ToApp(s) ==
    [s EXCEPT !.pc["main"] = "app", !.rec_size = 0, !.rec_kind = "plain",
              !.cpu = 0]

\* What the marshal function of a command keeps once the command is recorded
\* at cmd in the current batch: the batch index for a command that changes
\* the program or a display list, the record itself for glCallList and
\* glBindBuffer.
marshal_caches(s, cmd) ==
    CASE s.rec_kind = "program" -> [s EXCEPT !.LastProgramChangeBatch = s.next]
      [] s.rec_kind = "dlist" -> [s EXCEPT !.LastDListChangeBatchIndex = s.next]
      [] s.rec_kind = "calllist" -> [s EXCEPT !.LastCallList = cmd]
      [] s.rec_kind = "bindbuffer" -> [s EXCEPT !.LastBindBuffer = cmd]
      [] OTHER -> s

\* The record path after its flush (glthread_marshal.h,
\* _mesa_glthread_allocate_command): the record goes into the current batch;
\* with the engine torn down by the flush the command runs directly.
allocate_command_tail(s) ==
    LET id == s.nrec + 1
        r == [s EXCEPT !.nrec = id] IN
    IF s.enabled
    THEN ToApp(Ev(marshal_caches(
                      [r EXCEPT !.batches[s.next].buffer[s.used] =
                                   [cmd_id |-> id, cmd_size |-> s.rec_size],
                                !.used = s.used + s.rec_size,
                                !.nunits = @ + s.rec_size],
                      [batch |-> s.next, pos |-> s.used]),
                  "record"))
    ELSE ToApp(Ev([r EXCEPT !.exec = Append(@, id)], "direct_call"))

flush_return(s) ==
    IF s.stack # <<>> /\ Head(s.stack).fn = "allocate_command"
    THEN allocate_command_tail(Pop(Ev(s, "flush_return")))
    ELSE ToApp(Ev(s, "flush_return"))

destroy_return(s) ==
    IF s.stack # <<>> /\ Head(s.stack).fn = "flush"
    THEN flush_return(Pop(Ev(s, "destroy_return")))
    ELSE ToApp(Ev(s, "destroy_return"))

\* ----------------------------------------------- _mesa_glthread_destroy
\* Mutant: the thread's table is set whatever it was.
destroy_tail_always_switches(s) ==
    LET r == [s EXCEPT !.qstate = "destroyed",
                       !.batches = [i \in Ring |-> [@[i] EXCEPT !.fence_init = FALSE]],
                       !.VAOs = FALSE,
                       !.enabled = FALSE,
                       !.CurrentClientDispatch = CurrentServerDispatch(s)]
    IN  destroy_return(Ev([r EXCEPT !.glapi["main"].dispatch = r.CurrentClientDispatch],
                          "dispatch_switched"))

\* Lines 187-200, once util_queue_destroy has joined the worker.
destroy_tail(s) ==
    LET r == [s EXCEPT !.qstate = "destroyed",
                       !.batches = [i \in Ring |-> [@[i] EXCEPT !.fence_init = FALSE]],
                       !.VAOs = FALSE,
                       !.enabled = FALSE,
                       !.CurrentClientDispatch = CurrentServerDispatch(s)]
    IN  destroy_return(IF r.glapi["main"].dispatch = "MarshalExec"
                       THEN Ev([r EXCEPT !.glapi["main"].dispatch = r.CurrentClientDispatch],
                               "dispatch_switched")
                       ELSE r)

\* Line 185: util_queue_destroy asks the worker to exit and joins it.
destroy_queue(s) ==
    Ev([s EXCEPT !.qstate = "killed", !.pc["main"] = "queue_destroy"],
       "queue_destroy")

\* ------------------------------------------------ _mesa_glthread_finish
finish_return(s, t) ==
    IF t # "main" THEN Ev(s, "finish_return_worker")
    ELSE IF s.stack # <<>> /\ Head(s.stack).fn = "destroy"
    THEN destroy_queue(Pop(Ev(s, "finish_return")))
    ELSE ToApp(Ev(s, "finish_return"))

\* Mutant: every finish of an enabled engine counts as a sync.
finish_end_always_counts(s, t) ==
    finish_return([s EXCEPT !.stats.num_syncs = @ + 1, !.synced = FALSE], t)

\* Lines 321-322.
finish_end(s, t) ==
    finish_return(IF s.synced
                  THEN [s EXCEPT !.stats.num_syncs = @ + 1, !.synced = FALSE]
                  ELSE s, t)

\* Mutant: the thread keeps the table glthread_unmarshal_batch gave it.
finish_after_unmarshal_no_restore(s, t) ==
    finish_end([s EXCEPT !.dispatch = "none", !.synced = TRUE], t)

\* Lines 313-318, once glthread_unmarshal_batch has returned.
finish_after_unmarshal(s, t) ==
    finish_end([s EXCEPT !.glapi[t].dispatch = s.dispatch,
                         !.dispatch = "none",
                         !.synced = TRUE], t)

\* Mutant: finish drops the pending records instead of running them.
finish_direct_skips(s, t) ==
    IF s.used # 0
    THEN finish_end([s EXCEPT !.used = 0, !.synced = TRUE], t)
    ELSE finish_end(s, t)

\* Mutant: the pending records are counted as offloaded items.
finish_direct_counts_offloaded(s, t) ==
    IF s.used # 0
    THEN unmarshal_enter(
             Ev(clear_caches(
                    [s EXCEPT !.stats.num_offloaded_items = @ + s.used,
                              !.batches[s.next].used = s.used,
                              !.used = 0,
                              !.dispatch = s.glapi[t].dispatch,
                              !.pc[t] = "unmarshal"]),
                "finish_direct"),
             t, s.next)
    ELSE finish_end(s, t)

\* Mutant: glthread->used keeps the count of the batch handed over.
finish_direct_keeps_used(s, t) ==
    IF s.used # 0
    THEN unmarshal_enter(
             Ev(clear_caches(
                    [s EXCEPT !.stats.num_direct_items = @ + s.used,
                              !.batches[s.next].used = s.used,
                              !.dispatch = s.glapi[t].dispatch,
                              !.pc[t] = "unmarshal"]),
                "finish_direct"),
             t, s.next)
    ELSE finish_end(s, t)

\* Lines 300-312: the pending records run on the calling thread.
finish_direct(s, t) ==
    IF s.used # 0
    THEN unmarshal_enter(
             Ev(clear_caches(
                    [s EXCEPT !.stats.num_direct_items = @ + s.used,
                              !.batches[s.next].used = s.used,
                              !.used = 0,
                              !.dispatch = s.glapi[t].dispatch,
                              !.pc[t] = "unmarshal"]),
                "finish_direct"),
             t, s.next)
    ELSE finish_end(s, t)

\* Lines 295-298, once the fence is signalled.
finish_after_wait(s, t) ==
    finish_direct(Ev([s EXCEPT !.synced = TRUE], "finish_waited"), t)

\* Mutant: finish does not wait for the last submitted batch.
finish_no_fence_wait(s, t) ==
    IF ~s.enabled THEN finish_return(Ev(s, "finish_disabled"), t)
    ELSE IF t = "worker" THEN finish_return(Ev(s, "finish_self"), t)
    ELSE finish_direct([s EXCEPT !.synced = FALSE], t)

\* Mutant: finish waits for the current batch's fence, not the last one's.
finish_waits_on_next(s, t) ==
    IF ~s.enabled THEN finish_return(Ev(s, "finish_disabled"), t)
    ELSE IF t = "worker" THEN finish_return(Ev(s, "finish_self"), t)
    ELSE LET r == [s EXCEPT !.synced = FALSE] IN
         IF ~r.batches[r.next].fence
         THEN Ev([r EXCEPT !.pc[t] = "fence_wait"], "finish_wait")
         ELSE finish_direct(r, t)

\* Mutant: no check for the worker thread calling finish.
finish_no_self_check(s, t) ==
    IF ~s.enabled THEN finish_return(Ev(s, "finish_disabled"), t)
    ELSE LET r == [s EXCEPT !.synced = FALSE] IN
         IF ~r.batches[r.last].fence
         THEN Ev([r EXCEPT !.pc[t] = "fence_wait"], "finish_wait")
         ELSE finish_direct(r, t)

\* Mutant: finish throws the waiting jobs away instead of waiting for them.
finish_cancels_jobs(s, t) ==
    IF ~s.enabled THEN finish_return(Ev(s, "finish_disabled"), t)
    ELSE IF t = "worker" THEN finish_return(Ev(s, "finish_self"), t)
    ELSE LET r == [s EXCEPT !.synced = FALSE, !.queue = <<>>] IN
         IF ~r.batches[r.last].fence
         THEN Ev([r EXCEPT !.pc[t] = "fence_wait"], "finish_wait")
         ELSE finish_direct(r, t)

\* Lines 277-298.
mesa_glthread_finish(s, t) ==
    IF ~s.enabled THEN finish_return(Ev(s, "finish_disabled"), t)
    ELSE IF t = "worker" THEN finish_return(Ev(s, "finish_self"), t)
    ELSE LET r == [s EXCEPT !.synced = FALSE] IN
         IF ~r.batches[r.last].fence
         THEN Ev([r EXCEPT !.pc[t] = "fence_wait"], "finish_wait")
         ELSE finish_direct(r, t)

\* Mutant: destroy does not check that the engine is enabled.
destroy_no_enabled_check(s) ==
    mesa_glthread_finish(Push(Ev(s, "destroy"), "destroy"), "main")

\* Mutant: destroy goes for the queue without calling finish.
destroy_no_finish(s) ==
    IF ~s.enabled THEN destroy_return(Ev(s, "destroy_disabled"))
    ELSE destroy_queue(Ev(s, "destroy"))

\* Lines 174-185.
mesa_glthread_destroy(s) ==
    IF ~s.enabled THEN destroy_return(Ev(s, "destroy_disabled"))
    ELSE mesa_glthread_finish(Push(Ev(s, "destroy"), "destroy"), "main")

\* ------------------------------------------- _mesa_glthread_flush_batch
\* Lines 226-236: the worker thread and the backend's threads are bound to
\* the cache domain of the CPU the caller runs on, when that is known.
pin_threads(s) ==
    IF s.cpu >= 0
    THEN LET L3_cache == cpu_to_L3(s.cpu) IN
         IF L3_cache # U_CPU_INVALID_L3
         THEN Ev([s EXCEPT !.thread_affinity = L3_cache,
                           !.pin_param = L3_cache], "pinned")
         ELSE Ev(s, "pin_no_domain")
    ELSE Ev(s, "pin_no_cpu")

\* Mutant: the counter runs and the threads are bound on every platform.
flush_pin_any_platform(s) ==
    LET c == [s EXCEPT !.pin_thread_counter = @ + 1] IN
    IF c.pin_thread_counter % PinPeriod = 0 THEN pin_threads(c) ELSE c

\* Mutant: the backend is told the domain, the worker thread is left alone.
flush_pin_backend_only(s) ==
    IF s.num_L3_caches > 1 /\ s.set_context_param
    THEN LET c == [s EXCEPT !.pin_thread_counter = @ + 1] IN
         IF c.pin_thread_counter % PinPeriod = 0
         THEN [pin_threads(c) EXCEPT !.thread_affinity = s.thread_affinity]
         ELSE c
    ELSE s

\* Lines 222-238: the counter is incremented only when the two conditions
\* before it hold (&& evaluates left to right).
flush_pin(s) ==
    IF s.num_L3_caches > 1 /\ s.set_context_param
    THEN LET c == [s EXCEPT !.pin_thread_counter = @ + 1] IN
         IF c.pin_thread_counter % PinPeriod = 0 THEN pin_threads(c) ELSE c
    ELSE s

\* Mutant: the ring advances without last being set.
flush_tail_keeps_last(s) ==
    flush_return(Ev(clear_caches(
                        [s EXCEPT !.next = (s.next + 1) % MARSHAL_MAX_BATCHES,
                                  !.used = 0]),
                    "flush_submit"))

\* Mutant: the ring index does not wrap around.
flush_tail_no_wrap(s) ==
    flush_return(Ev(clear_caches(
                        [s EXCEPT !.last = s.next,
                                  !.next = s.next + 1,
                                  !.used = 0]),
                    "flush_submit"))

\* Mutant: last names the batch that becomes current.
flush_tail_last_is_next(s) ==
    flush_return(Ev(clear_caches(
                        [s EXCEPT !.last = (s.next + 1) % MARSHAL_MAX_BATCHES,
                                  !.next = (s.next + 1) % MARSHAL_MAX_BATCHES,
                                  !.used = 0]),
                    "flush_submit"))

\* Mutant: flush leaves the two cached records in place.
flush_tail_keeps_caches(s) ==
    flush_return(Ev([s EXCEPT !.last = s.next,
                              !.next = (s.next + 1) % MARSHAL_MAX_BATCHES,
                              !.used = 0],
                    "flush_submit"))

\* Lines 261-267, once util_queue_add_job has returned.
flush_tail(s) ==
    flush_return(Ev(clear_caches(
                        [s EXCEPT !.last = s.next,
                                  !.next = (s.next + 1) % MARSHAL_MAX_BATCHES,
                                  !.used = 0]),
                    "flush_submit"))

\* Mutant: the job is added whether or not the queue has room.
flush_add_job_no_wait(s) ==
    flush_tail(util_queue_add_job(s, UnmarshalJob(s.next)))

\* Mutant: the producer always parks before the job is added.
flush_add_job_always_waits(s) ==
    Ev([s EXCEPT !.pc["main"] = "add_job"], "add_job_wait")

\* Lines 259-260: util_queue_add_job waits while the queue is full.
flush_add_job(s) ==
    IF QueueFull(s)
    THEN Ev([s EXCEPT !.pc["main"] = "add_job"], "add_job_wait")
    ELSE flush_tail(util_queue_add_job(s, UnmarshalJob(s.next)))

\* Mutant: an empty batch is submitted like any other.
flush_batch_no_empty_check(s) ==
    IF ~s.enabled THEN flush_return(Ev(s, "flush_disabled"))
    ELSE IF s.lost
    THEN mesa_glthread_destroy(Push(Ev(s, "flush_lost"), "flush"))
    ELSE flush_add_job(
             Ev([s EXCEPT !.stats.num_offloaded_items = @ + s.used,
                          !.batches[s.next].used = s.used],
                IF s.used = 0 THEN "flush_empty" ELSE "flush_offload"))

\* Mutant: flush counts one offloaded item for each batch.
flush_batch_counts_batches(s) ==
    IF ~s.enabled THEN flush_return(Ev(s, "flush_disabled"))
    ELSE IF s.lost
    THEN mesa_glthread_destroy(Push(Ev(s, "flush_lost"), "flush"))
    ELSE IF s.used = 0 THEN flush_return(Ev(s, "flush_empty"))
    ELSE flush_add_job(
             Ev([s EXCEPT !.stats.num_offloaded_items = @ + 1,
                          !.batches[s.next].used = s.used],
                "flush_offload"))

\* Mutant: flush does not look at the context's lost state.
flush_batch_no_lost_check(s) ==
    IF ~s.enabled THEN flush_return(Ev(s, "flush_disabled"))
    ELSE IF s.used = 0 THEN flush_return(Ev(s, "flush_empty"))
    ELSE flush_add_job(
             Ev([s EXCEPT !.stats.num_offloaded_items = @ + s.used,
                          !.batches[s.next].used = s.used],
                "flush_offload"))

\* Lines 204-257.
\* Mutant: the units of a submitted batch are not counted.
flush_batch_no_count(s) ==
    IF ~s.enabled THEN flush_return(Ev(s, "flush_disabled"))
    ELSE IF s.lost
    THEN mesa_glthread_destroy(Push(Ev(s, "flush_lost"), "flush"))
    ELSE IF s.used = 0 THEN flush_return(Ev(s, "flush_empty"))
    ELSE LET p == flush_pin(s) IN
         flush_add_job(
             Ev([p EXCEPT !.batches[s.next].used = s.used], "flush_offload"))

\* Mutant: a lost context makes flush forget the pending records.
flush_batch_lost_drops_pending(s) ==
    IF ~s.enabled THEN flush_return(Ev(s, "flush_disabled"))
    ELSE IF s.lost
    THEN mesa_glthread_destroy(
             Push(Ev([s EXCEPT !.used = 0], "flush_lost"), "flush"))
    ELSE IF s.used = 0 THEN flush_return(Ev(s, "flush_empty"))
    ELSE LET p == flush_pin(s) IN
         flush_add_job(
             Ev([p EXCEPT !.stats.num_offloaded_items = @ + s.used,
                          !.batches[s.next].used = s.used],
                "flush_offload"))

mesa_glthread_flush_batch(s) ==
    IF ~s.enabled THEN flush_return(Ev(s, "flush_disabled"))
    ELSE IF s.lost
    THEN mesa_glthread_destroy(Push(Ev(s, "flush_lost"), "flush"))
    ELSE IF s.used = 0 THEN flush_return(Ev(s, "flush_empty"))
    ELSE LET p == flush_pin(s) IN
         flush_add_job(
             Ev([p EXCEPT !.stats.num_offloaded_items = @ + s.used,
                          !.batches[s.next].used = s.used],
                "flush_offload"))

\* ------------------------------------------------------- the record path
\* _mesa_glthread_allocate_command (glthread_marshal.h): a record that does
\* not fit flushes first; a call made with the engine disabled runs directly.
allocate_command(s, size) ==
    LET r == [s EXCEPT !.rec_size = size] IN
    IF s.enabled /\ s.used + size > BatchCap
    THEN mesa_glthread_flush_batch(Push(Ev(r, "record_flush"), "allocate_command"))
    ELSE allocate_command_tail(r)

\* -------------------------------------------------- _mesa_glthread_init
\* Lines 125-126 and 134-136: util_queue_destroy asks the worker to exit and
\* joins it.
init_unwind(s) == [s EXCEPT !.qstate = "killed", !.pc["main"] = "init_unwind"]

\* Lines 127 and 137, once the worker has exited.
init_unwind_tail(s) == ToApp(Ev([s EXCEPT !.qstate = "destroyed"], "init_unwound"))

\* Mutant: only one of the two capabilities is asked for.
init_one_capability(s, cap_unsync, cap_mapped, queue_ok, vao_ok, table_ok) ==
    IF ~cap_unsync THEN ToApp(Ev(s, "init_unsupported"))
    ELSE IF ~queue_ok THEN ToApp(Ev(s, "init_no_queue"))
    ELSE LET q == util_queue_init(s)
             v == [q EXCEPT !.VAOs = TRUE]
             e == [v EXCEPT !.MarshalExec = TRUE,
                            !.batches = [i \in Ring |->
                                [@[i] EXCEPT !.fence = TRUE, !.fence_init = TRUE]],
                            !.used = 0,
                            !.enabled = TRUE,
                            !.CurrentClientDispatch = "MarshalExec",
                            !.LastDListChangeBatchIndex = -1]
         IN  IF ~vao_ok THEN init_unwind(Ev(q, "init_no_vaos"))
             ELSE IF ~table_ok
             THEN init_unwind(Ev([v EXCEPT !.VAOs = FALSE], "init_no_table"))
             ELSE Ev([util_queue_add_job(e, InitJob) EXCEPT !.pc["main"] = "init_wait"],
                     "init_enabled")

\* Mutant: the VAO table is kept when the marshal table cannot be allocated.
init_leaks_vaos(s, cap_unsync, cap_mapped, queue_ok, vao_ok, table_ok) ==
    IF ~cap_unsync \/ ~cap_mapped THEN ToApp(Ev(s, "init_unsupported"))
    ELSE IF ~queue_ok THEN ToApp(Ev(s, "init_no_queue"))
    ELSE LET q == util_queue_init(s)
             v == [q EXCEPT !.VAOs = TRUE]
             e == [v EXCEPT !.MarshalExec = TRUE,
                            !.batches = [i \in Ring |->
                                [@[i] EXCEPT !.fence = TRUE, !.fence_init = TRUE]],
                            !.used = 0,
                            !.enabled = TRUE,
                            !.CurrentClientDispatch = "MarshalExec",
                            !.LastDListChangeBatchIndex = -1]
         IN  IF ~vao_ok THEN init_unwind(Ev(q, "init_no_vaos"))
             ELSE IF ~table_ok THEN init_unwind(Ev(v, "init_no_table"))
             ELSE Ev([util_queue_add_job(e, InitJob) EXCEPT !.pc["main"] = "init_wait"],
                     "init_enabled")

\* Mutant: init returns without waiting for the initialization job.
init_no_barrier(s, cap_unsync, cap_mapped, queue_ok, vao_ok, table_ok) ==
    IF ~cap_unsync \/ ~cap_mapped THEN ToApp(Ev(s, "init_unsupported"))
    ELSE IF ~queue_ok THEN ToApp(Ev(s, "init_no_queue"))
    ELSE LET q == util_queue_init(s)
             v == [q EXCEPT !.VAOs = TRUE]
             e == [v EXCEPT !.MarshalExec = TRUE,
                            !.batches = [i \in Ring |->
                                [@[i] EXCEPT !.fence = TRUE, !.fence_init = TRUE]],
                            !.used = 0,
                            !.enabled = TRUE,
                            !.CurrentClientDispatch = "MarshalExec",
                            !.LastDListChangeBatchIndex = -1]
         IN  IF ~vao_ok THEN init_unwind(Ev(q, "init_no_vaos"))
             ELSE IF ~table_ok
             THEN init_unwind(Ev([v EXCEPT !.VAOs = FALSE], "init_no_table"))
             ELSE ToApp(Ev(util_queue_add_job(e, InitJob), "init_return"))

\* Lines 107-162, as far as the wait for the worker's initialization job.
mesa_glthread_init(s, cap_unsync, cap_mapped, queue_ok, vao_ok, table_ok) ==
    IF ~cap_unsync \/ ~cap_mapped THEN ToApp(Ev(s, "init_unsupported"))
    ELSE IF ~queue_ok THEN ToApp(Ev(s, "init_no_queue"))
    ELSE LET q == util_queue_init(s)
             v == [q EXCEPT !.VAOs = TRUE]
             e == [v EXCEPT !.MarshalExec = TRUE,
                            !.batches = [i \in Ring |->
                                [@[i] EXCEPT !.fence = TRUE, !.fence_init = TRUE]],
                            !.used = 0,
                            !.enabled = TRUE,
                            !.CurrentClientDispatch = "MarshalExec",
                            !.LastDListChangeBatchIndex = -1]
         IN  IF ~vao_ok THEN init_unwind(Ev(q, "init_no_vaos"))
             ELSE IF ~table_ok
             THEN init_unwind(Ev([v EXCEPT !.VAOs = FALSE], "init_no_table"))
             ELSE Ev([util_queue_add_job(e, InitJob) EXCEPT !.pc["main"] = "init_wait"],
                     "init_enabled")

\* Line 163-165: the wait for the worker's initialization job is over.
init_tail(s) == ToApp(Ev(s, "init_return"))

\* ---------------------------------------------------------------- actions
AtApp == pc["main"] = "app"

\* What the backend and the allocator answer to one call of init.
init_inputs(cap_unsync, cap_mapped, queue_ok, vao_ok, table_ok) ==
    {"init_call"}
        \cup (IF cap_unsync THEN {} ELSE {"no_cap_unsync"})
        \cup (IF cap_mapped THEN {} ELSE {"no_cap_mapped"})
        \cup (IF queue_ok THEN {} ELSE {"no_queue"})
        \cup (IF vao_ok THEN {} ELSE {"no_vaos"})
        \cup (IF table_ok THEN {} ELSE {"no_table"})

GlthreadInit ==
    /\ AtApp /\ ~enabled /\ qstate = "none"
    /\ \E cap_unsync, cap_mapped, queue_ok, vao_ok, table_ok \in BOOLEAN :
          Assign(mesa_glthread_init(
                     [S EXCEPT !.ev = init_inputs(cap_unsync, cap_mapped,
                                                  queue_ok, vao_ok, table_ok)],
                     cap_unsync, cap_mapped, queue_ok, vao_ok, table_ok))

InitResume ==
    /\ pc["main"] = "init_wait" /\ init_fence
    /\ Assign(init_tail(S))

InitUnwindJoin ==
    /\ pc["main"] = "init_unwind" /\ pc["worker"] = "exited"
    /\ Assign(init_unwind_tail(S))

\* The application thread makes the context current: its dispatch table
\* becomes the context's client table.
MakeCurrent ==
    /\ AtApp
    /\ glapi["main"] # [dispatch |-> CurrentClientDispatch, context |-> TRUE]
    /\ Assign(Ev([S EXCEPT !.glapi["main"] =
                      [dispatch |-> CurrentClientDispatch, context |-> TRUE]],
                 "make_current"))

Record ==
    /\ AtApp /\ nrec < MaxCmds
    /\ \E size \in CmdSizes : Assign(allocate_command(S, size))

Flush == AtApp /\ Assign(mesa_glthread_flush_batch(Ev(S, "flush_call")))

AddJobResume ==
    /\ pc["main"] = "add_job" /\ ~QueueFull(S)
    /\ Assign(flush_tail(util_queue_add_job(S, UnmarshalJob(next))))

Finish == AtApp /\ Assign(mesa_glthread_finish(Ev(S, "finish_call"), "main"))

FenceWaitResume ==
    /\ pc["main"] = "fence_wait" /\ batches[last].fence
    /\ Assign(finish_after_wait(S, "main"))

Destroy == AtApp /\ Assign(mesa_glthread_destroy(Ev(S, "destroy_call")))

DestroyJoin ==
    /\ pc["main"] = "queue_destroy" /\ pc["worker"] = "exited"
    /\ Assign(destroy_tail(S))

\* ctx->CurrentServerDispatch becomes ctx->ContextLost (a GPU reset).
ContextLost == ~lost /\ Assign(Ev([S EXCEPT !.lost = TRUE], "context_lost"))

\* glthread_unmarshal_batch on thread t, one step per lock or record.
UnmarshalLock(t) ==
    /\ um[t].phase = "enter" /\ mutex.BufferObjects = "none"
    /\ Assign(unmarshal_lock(S, t))

UnmarshalLockTex(t) ==
    /\ um[t].phase = "lock_tex" /\ mutex.TexMutex = "none"
    /\ Assign(unmarshal_lock_tex(S, t))

UnmarshalStep(t) ==
    /\ um[t].phase = "decode" /\ um[t].pos < um[t].used
    /\ Assign(unmarshal_step(S, t))

UnmarshalExit(t) ==
    /\ um[t].phase = "decode" /\ um[t].pos >= um[t].used
    /\ Assign(IF t = "worker"
              THEN [unmarshal_exit(S, t) EXCEPT !.pc[t] = "signal"]
              ELSE finish_after_unmarshal(unmarshal_exit(S, t), t))

\* A command run by the worker reaches _mesa_glthread_finish.
WorkerFinish ==
    /\ pc["worker"] = "run" /\ um["worker"].phase = "decode"
    /\ Assign(mesa_glthread_finish(Ev(S, "finish_call_worker"), "worker"))

\* util_queue_thread_func: take the oldest job and run it.
WorkerTake ==
    /\ pc["worker"] = "idle" /\ qstate = "alive" /\ queue # <<>>
    /\ LET job == Head(queue)
           s == [S EXCEPT !.queue = Tail(@), !.wjob = job] IN
       Assign(IF job.fn = "glthread_unmarshal_batch"
              THEN [unmarshal_enter(s, "worker", job.batch) EXCEPT !.pc["worker"] = "run"]
              ELSE [glthread_thread_initialization(s) EXCEPT !.pc["worker"] = "signal"])

\* util_queue_thread_func: the job's fence is signalled after it has run.
WorkerSignal ==
    /\ pc["worker"] = "signal"
    /\ Assign(Ev([util_queue_fence_signal(S, wjob) EXCEPT
                     !.pc["worker"] = "idle", !.wjob = NoJob], "fence_signal"))

\* util_queue_thread_func: asked to exit, the thread leaves its loop.
WorkerExit ==
    /\ pc["worker"] = "idle" /\ qstate = "killed"
    /\ Assign(Ev([S EXCEPT !.pc["worker"] = "exited"], "worker_exit"))

\* Every step but the recording of a command.
Calls ==
    \/ GlthreadInit \/ InitResume \/ InitUnwindJoin \/ Flush \/ AddJobResume
    \/ Finish \/ FenceWaitResume \/ Destroy \/ DestroyJoin \/ ContextLost
    \/ \E t \in Threads : UnmarshalLock(t)
    \/ \E t \in Threads : UnmarshalLockTex(t)
    \/ \E t \in Threads : UnmarshalStep(t)
    \/ \E t \in Threads : UnmarshalExit(t)
    \/ WorkerFinish \/ WorkerTake \/ WorkerSignal \/ WorkerExit

Next == Record \/ Calls

Spec == Init /\ [][Next]_vars

\* The same program with the application thread making the context current
\* at any time between its calls (the thread's dispatch table is an input of
\* finish and destroy), over shorter runs.
RecordShort == nrec < MaxShortCmds /\ Record

NextCurrent == MakeCurrent \/ RecordShort \/ Calls

SpecCurrent == Init /\ [][NextCurrent]_vars

\* Scheduling.  The worker thread runs whenever it has something to do
\* (util_queue_thread_func), and a producer parked in util_queue_add_job,
\* util_queue_fence_wait or the thread join of util_queue_destroy is woken
\* once what it waits for has happened; a decode on either thread goes on to
\* its end.  What the application calls, and when, is not constrained.
WorkerRun ==
    \/ WorkerTake \/ WorkerSignal \/ WorkerExit
    \/ UnmarshalLock("worker") \/ UnmarshalLockTex("worker")
    \/ UnmarshalStep("worker") \/ UnmarshalExit("worker")

ProducerResume ==
    \/ InitResume \/ InitUnwindJoin \/ AddJobResume \/ FenceWaitResume \/ DestroyJoin
    \/ UnmarshalLock("main") \/ UnmarshalLockTex("main")
    \/ UnmarshalStep("main") \/ UnmarshalExit("main")

NextShort == RecordShort \/ Calls

FairSpec ==
    Init /\ [][NextShort]_vars /\ WF_vars(WorkerRun) /\ WF_vars(ProducerResume)

\* The same program with commands whose marshal functions keep something
\* about the record (the batch index of the last program or display-list
\* change, the last glCallList or glBindBuffer record), over shorter runs.
RecordKinds == {"plain", "program", "dlist", "calllist", "bindbuffer"}

RecordCached ==
    /\ AtApp /\ nrec < MaxShortCmds
    /\ \E size \in CmdSizes, kind \in RecordKinds :
          Assign(allocate_command([S EXCEPT !.rec_kind = kind], size))

NextCached == RecordCached \/ Calls

SpecCached == Init /\ [][NextCached]_vars

\* The same program on platforms with two L3 cache domains or one, with a
\* backend that has set_context_param or not, the application thread running
\* on any CPU when it calls, over shorter runs.  _mesa_glthread_init does not
\* write glthread->pin_thread_counter (line 156 writes the state tracker's
\* counter): an engine starts with the count its context has reached, here 0
\* or two flushes before a multiple of PinPeriod.
PinInits ==
    {<<2, TRUE, 0>>, <<2, TRUE, PinPeriod - 2>>,
     <<1, TRUE, PinPeriod - 2>>, <<2, FALSE, PinPeriod - 2>>}

InitPin ==
    /\ InitEngine /\ InitVenus
    /\ \E p \in PinInits :
          /\ num_L3_caches = p[1] /\ set_context_param = p[2]
          /\ pin_thread_counter = p[3]

\* The CPU the application thread runs on during a call, as an event.
OnCpu(c) ==
    CASE c = 0 -> "on_cpu_0" [] c = 1 -> "on_cpu_1" [] c = 2 -> "on_cpu_2"
      [] OTHER -> "on_unknown_cpu"

FlushPin ==
    /\ AtApp
    /\ \E c \in Cpus :
          Assign(mesa_glthread_flush_batch(
                     [S EXCEPT !.cpu = c, !.ev = {"flush_call", OnCpu(c)}]))

RecordPin ==
    /\ AtApp /\ nrec < MaxShortCmds
    /\ \E size \in CmdSizes, c \in Cpus :
          Assign(allocate_command([S EXCEPT !.cpu = c, !.ev = {OnCpu(c)}], size))

NextPin == RecordPin \/ FlushPin \/ Calls

SpecPin == InitPin /\ [][NextPin]_vars

\* ------------------------------------------------------------- claims
\* ===================================================================
\* The venus queue objects of src/virtio/vulkan/vn_queue.c: fences and
\* semaphores with a permanent and a temporary payload, the sync file
\* descriptors imported into them, and vn_queue_submit.  The handlers are
\* operators on the same record s; they leave the glthread fields alone.

\* The history of a step names the object a call was made on.
On(e, id) == e \o "_" \o ToString(id)
EvOn(s, e, id) == Ev(Ev(s, e), On(e, id))

\* close(2): one more close of descriptor fd.
close(s, fd) ==
    [s EXCEPT !.fds[fd].closes = @ + 1, !.fds[fd].st = "closed"]

\* vn_sync_payload_release on payload which ("permanent" or "temporary")
\* of object id of table tbl ("fences" or "sems").  The fd field keeps its
\* value.
vn_sync_payload_release(s, tbl, id, which) ==
    LET payload == s[tbl][id][which]
        c == IF payload.type = "IMPORTED_SYNC_FD" /\ payload.fd >= 0
             THEN close(s, payload.fd) ELSE s IN
    [c EXCEPT ![tbl][id][which].type = "INVALID"]

vn_fence_init_payloads(s, f) ==
    [s EXCEPT !.fences[f].permanent.type = "DEVICE_ONLY",
              !.fences[f].temporary.type = "INVALID",
              !.fences[f].payload = "permanent"]

\* vn_fence_feedback_init; fb is what the device gives: "off" (the renderer
\* does not allow vkWaitForFences or NO_FENCE_FEEDBACK is set), "fail" (an
\* allocation fails) or "on".  Answers the state and whether it succeeded.
vn_fence_feedback_init(s, f, fb) ==
    IF s.fences[f].is_external \/ fb = "off" THEN [s |-> s, ok |-> TRUE]
    ELSE IF fb = "fail" THEN [s |-> s, ok |-> FALSE]
    ELSE [s |-> [s EXCEPT !.fences[f].feedback_slot = TRUE], ok |-> TRUE]

\* vn_CreateFence into the free handle f; export: the create info asks for
\* an exportable fence; alloc_ok: vk_zalloc gives memory.
vn_CreateFence(s, f, export, fb, alloc_ok) ==
    IF ~alloc_ok THEN EvOn(s, "create_fence_failed", f)
    ELSE LET z == [s EXCEPT !.fences[f] =
                       [NoFence EXCEPT !.alive = TRUE, !.is_external = export]]
             r == vn_fence_feedback_init(vn_fence_init_payloads(z, f), f, fb)
         IN IF r.ok THEN EvOn(r.s, "create_fence", f)
            ELSE EvOn([vn_sync_payload_release(
                           vn_sync_payload_release(r.s, "fences", f,
                                                   "permanent"),
                           "fences", f, "temporary")
                         EXCEPT !.fences[f] = NoFence],
                      "create_fence_failed", f)

vn_DestroyFence(s, f) ==
    EvOn([vn_sync_payload_release(
              vn_sync_payload_release(s, "fences", f, "permanent"),
              "fences", f, "temporary")
            EXCEPT !.fences[f] = NoFence],
         "destroy_fence", f)

\* Mutant: a reset releases the temporary payload and stays on it.
reset_fence_keeps_payload(s, f) ==
    EvOn(vn_sync_payload_release(s, "fences", f, "temporary"),
         "reset_fence", f)

\* One turn of the loop of vn_ResetFences.
reset_fence(s, f) ==
    LET r == vn_sync_payload_release(s, "fences", f, "temporary") IN
    EvOn([IF r.fences[f].permanent.type = "DEVICE_ONLY" THEN r
          ELSE Ev(r, "assert_failed")
            EXCEPT !.fences[f].payload = "permanent"],
         "reset_fence", f)

\* vn_ResetFences on the fences of the sequence pFences.
RECURSIVE vn_ResetFences(_, _)
vn_ResetFences(s, pFences) ==
    IF pFences = << >> THEN s
    ELSE vn_ResetFences(reset_fence(s, Head(pFences)), Tail(pFences))

vn_fence_signal_wsi(s, f) ==
    EvOn([vn_sync_payload_release(s, "fences", f, "temporary")
            EXCEPT !.fences[f].temporary =
                       [type |-> "IMPORTED_SYNC_FD", fd |-> -1],
                   !.fences[f].payload = "temporary"],
         "fence_signal_wsi", f)

\* vn_sync_valid_fd: -1 stands for a sync file that has signalled;
\* is_sync_file is what sync_valid_fd answers for a descriptor.
vn_sync_valid_fd(fd, is_sync_file) == (fd >= 0 /\ is_sync_file) \/ fd = -1

\* vn_ImportFenceFdKHR of descriptor fd (owned by the caller) into fence f.
vn_ImportFenceFdKHR(s, f, fd, is_sync_file) ==
    IF ~vn_sync_valid_fd(fd, is_sync_file)
    THEN EvOn(s, "import_invalid_handle", f)
    ELSE LET r == vn_sync_payload_release(s, "fences", f, "temporary")
             o == IF fd >= 0
                  THEN [r EXCEPT !.fds[fd].st = "driver",
                                 !.fds[fd].imports = @ + 1]
                  ELSE r
         IN EvOn([o EXCEPT !.fences[f].temporary =
                               [type |-> "IMPORTED_SYNC_FD", fd |-> fd],
                           !.fences[f].payload = "temporary"],
                 "import_fence_fd", f)

\* *pFd = fd: descriptor fd now belongs to the caller.
hand_out(s, fd) ==
    IF fd >= 0
    THEN [s EXCEPT !.fds[fd].st = "app", !.fds[fd].exports = @ + 1]
    ELSE s

\* Mutant: the export of an imported descriptor leaves it in the payload.
vn_GetFenceFdKHR_keeps_fd(s, f, sync_file) ==
    LET payload == s.fences[f][s.fences[f].payload] IN
    IF payload.type = "DEVICE_ONLY"
    THEN IF sync_file < 0 THEN EvOn(s, "get_fence_fd_failed", f)
         ELSE EvOn(hand_out(
                       [vn_sync_payload_release(s, "fences", f, "temporary")
                          EXCEPT !.fences[f].payload = "permanent"],
                       sync_file),
                   "get_fence_fd_created", f)
    ELSE EvOn(hand_out(vn_ResetFences(s, <<f>>), payload.fd),
              "get_fence_fd_moved", f)

\* vn_GetFenceFdKHR on fence f; sync_file is what vn_create_sync_file
\* gives when it is called: a new descriptor, or -1 for a failure.
vn_GetFenceFdKHR(s, f, sync_file) ==
    LET payload == s.fences[f][s.fences[f].payload] IN
    IF payload.type = "DEVICE_ONLY"
    THEN IF sync_file < 0 THEN EvOn(s, "get_fence_fd_failed", f)
         ELSE EvOn(hand_out(
                       [vn_sync_payload_release(s, "fences", f, "temporary")
                          EXCEPT !.fences[f].payload = "permanent"],
                       sync_file),
                   "get_fence_fd_created", f)
    ELSE LET a == IF payload.type = "IMPORTED_SYNC_FD" THEN s
                  ELSE Ev(s, "assert_failed")
             fd == payload.fd
             t == [a EXCEPT !.fences[f][s.fences[f].payload].fd = -1]
         IN EvOn(hand_out(vn_ResetFences(t, <<f>>), fd),
                 "get_fence_fd_moved", f)

\* ------------------------------------------------- actions on fences
Alive == {f \in FenceIds : fences[f].alive}
UnusedFds == {k \in Fds : fds[k].st = "unused"}
\* The arrays of distinct fences a vkResetFences can pass.
FenceArrays(F) ==
    {<<f>> : f \in F} \cup {a \in F \X F : a[1] # a[2]}

CreateFence ==
    \E f \in FenceIds \ Alive, export \in BOOLEAN,
       fb \in {"off", "fail", "on"}, alloc_ok \in BOOLEAN :
        Assign(vn_CreateFence(S, f, export, fb, alloc_ok))

DestroyFence == \E f \in Alive : Assign(vn_DestroyFence(S, f))

ResetFences == \E a \in FenceArrays(Alive) : Assign(vn_ResetFences(S, a))

FenceSignalWsi == \E f \in Alive : Assign(vn_fence_signal_wsi(S, f))

\* The application imports a descriptor it has just opened, or -1.
ImportFenceFd ==
    \E f \in Alive, fd \in UnusedFds \cup {-1}, is_sync_file \in BOOLEAN :
        Assign(vn_ImportFenceFdKHR(S, f, fd, is_sync_file))

GetFenceFd ==
    \E f \in Alive, sync_file \in UnusedFds \cup {-1} :
        Assign(vn_GetFenceFdKHR(S, f, sync_file))

NextFence ==
    \/ CreateFence \/ DestroyFence \/ ResetFences
    \/ FenceSignalWsi \/ ImportFenceFd \/ GetFenceFd

\* The application working on fences only.
SpecFence == Init /\ [][NextFence]_vars

\* ------------------------------------------------- vn_queue_submit
\* vn_semaphore_wait_external on semaphore m; wait_ok: sync_wait succeeds.
\* Answers the state and whether the wait succeeded.
vn_semaphore_wait_external(s, m, wait_ok) ==
    LET temp == s.sems[m].temporary
        a == IF temp.type = "IMPORTED_SYNC_FD" THEN s
             ELSE Ev(s, "assert_failed") IN
    IF temp.fd >= 0 /\ ~wait_ok THEN [s |-> a, ok |-> FALSE]
    ELSE [s |-> [vn_sync_payload_release(a, "sems", m, "temporary")
                   EXCEPT !.sems[m].payload = "permanent"],
          ok |-> TRUE]

\* The first loop of vn_queue_submission_fix_batch_semaphores over the
\* wait semaphores waits; fail_waits: the semaphores whose sync_wait fails.
RECURSIVE fix_wait_semaphores(_, _, _)
fix_wait_semaphores(s, waits, fail_waits) ==
    IF waits = << >> THEN [s |-> s, ok |-> TRUE]
    ELSE LET m == Head(waits)
             payload == s.sems[m][s.sems[m].payload] IN
         IF payload.type # "IMPORTED_SYNC_FD"
         THEN fix_wait_semaphores(s, Tail(waits), fail_waits)
         ELSE LET w == vn_semaphore_wait_external(s, m, m \notin fail_waits)
              IN IF ~w.ok THEN w
                 ELSE fix_wait_semaphores(
                          Ev(w.s, "import_semaphore_resource"),
                          Tail(waits), fail_waits)

\* Mutant: the last signal semaphore alone decides.
RECURSIVE fix_signal_semaphores_assigns(_, _)
fix_signal_semaphores_assigns(s, signals) ==
    IF signals = << >> THEN s
    ELSE fix_signal_semaphores_assigns(
             [s EXCEPT !.submit.synchronous =
                           s.sems[Head(signals)].is_external],
             Tail(signals))

\* Its second loop over the signal semaphores signals.
RECURSIVE fix_signal_semaphores(_, _)
fix_signal_semaphores(s, signals) ==
    IF signals = << >> THEN s
    ELSE fix_signal_semaphores(
             [s EXCEPT !.submit.synchronous =
                           @ \/ s.sems[Head(signals)].is_external],
             Tail(signals))

vn_queue_submission_fix_batch_semaphores(s, batch_index, fail_waits) ==
    LET b == s.submit.batches[batch_index]
        w == fix_wait_semaphores(s, b.wait, fail_waits) IN
    IF ~w.ok THEN [s |-> w.s, result |-> "VK_ERROR_DEVICE_LOST"]
    ELSE [s |-> fix_signal_semaphores(w.s, b.signal),
          result |-> "VK_SUCCESS"]

\* The loop of vn_queue_submission_prepare over the batches from index i.
RECURSIVE prepare_batches(_, _, _)
prepare_batches(s, i, fail_waits) ==
    IF i > s.submit.batch_count THEN [s |-> s, result |-> "VK_SUCCESS"]
    ELSE LET r == vn_queue_submission_fix_batch_semaphores(s, i, fail_waits)
         IN IF r.result # "VK_SUCCESS" THEN r
            ELSE prepare_batches(r.s, i + 1, fail_waits)

vn_queue_submission_prepare(s, fail_waits) ==
    LET h == s.submit.fence_handle
        has_fence == h # VK_NULL_HANDLE
        has_external_fence == has_fence /\ s.fences[h].is_external
        has_feedback_fence == has_fence /\ s.fences[h].feedback_slot
        a == IF has_external_fence /\ has_feedback_fence
             THEN Ev(s, "assert_failed") ELSE s
        wsi_mem == s.submit.batch_count = 1 /\ s.submit.batches[1].wsi
    IN prepare_batches(
           [a EXCEPT !.submit.has_feedback_fence = has_feedback_fence,
                     !.submit.wsi_mem = wsi_mem,
                     !.submit.synchronous = has_external_fence \/ wsi_mem],
           1, fail_waits)

\* The batch vn_queue_submission_add_fence_feedback appends: one command
\* buffer, no semaphore.
FeedbackBatch == [wait |-> << >>, signal |-> << >>, wsi |-> FALSE]

vn_queue_submission_add_fence_feedback(s, alloc_ok) ==
    IF ~alloc_ok THEN [s |-> s, result |-> "VK_ERROR_OUT_OF_HOST_MEMORY"]
    ELSE [s |-> [s EXCEPT !.submit.batches = Append(@, FeedbackBatch),
                          !.submit.batch_count = @ + 1],
          result |-> "VK_SUCCESS"]

vn_queue_submission_prepare_submit(s, fail_waits, alloc_ok) ==
    LET r == vn_queue_submission_prepare(s, fail_waits) IN
    IF r.result # "VK_SUCCESS" THEN r
    ELSE IF r.s.submit.has_feedback_fence
    THEN vn_queue_submission_add_fence_feedback(r.s, alloc_ok)
    ELSE r

\* vn_QueueWaitIdle submits no batch with the queue's own wait fence, which
\* vn_CreateFence made without export info, and waits for that fence.
vn_QueueWaitIdle(s) ==
    Ev([s EXCEPT !.submit.idle =
                     IF s.NO_ASYNC_QUEUE_SUBMIT THEN "sync" ELSE "async"],
       "queue_wait_idle")

\* has_implicit_fencing: renderer->info.has_implicit_fencing.
vn_queue_wsi_present(s, has_implicit_fencing) ==
    IF ~s.submit.wsi_mem THEN s
    ELSE IF has_implicit_fencing THEN Ev(s, "wsi_renderer_submit")
    ELSE vn_QueueWaitIdle(s)

\* Lines 427-429 and 437-439: an external object on its permanent payload
\* takes the ring index of the queue.
track_ring_idx(obj) ==
    IF obj.is_external /\ obj[obj.payload].type = "DEVICE_ONLY"
    THEN [obj EXCEPT !.ring_idx = QueueRingIdx] ELSE obj

\* The signal semaphores of all batches of the submission.
SignalSems(sub) ==
    UNION {{sub.batches[i].signal[j] : j \in DOMAIN sub.batches[i].signal} :
              i \in 1 .. sub.batch_count}

queue_submit_tail(s, has_implicit_fencing) ==
    LET h == s.submit.fence_handle
        f == IF h # VK_NULL_HANDLE
             THEN [s EXCEPT !.fences[h] = track_ring_idx(@)] ELSE s
        g == [f EXCEPT !.sems =
                 [m \in SemIds |-> IF m \in SignalSems(s.submit)
                                   THEN track_ring_idx(f.sems[m])
                                   ELSE f.sems[m]]]
    IN [vn_queue_wsi_present(g, has_implicit_fencing)
          EXCEPT !.submit.result = "VK_SUCCESS"]

\* Lines 393-418: how the submission goes to the renderer; renderer_ok is
\* the result of the synchronous call.
queue_send(s, renderer_ok, has_implicit_fencing) ==
    IF s.submit.synchronous \/ s.NO_ASYNC_QUEUE_SUBMIT
    THEN IF ~renderer_ok
         THEN Ev([s EXCEPT !.submit.sent = "sync",
                           !.submit.result = "VK_ERROR_DEVICE_LOST"],
                 "vn_call_vkQueueSubmit")
         ELSE queue_submit_tail(
                  Ev([s EXCEPT !.submit.sent = "sync"],
                     "vn_call_vkQueueSubmit"),
                  has_implicit_fencing)
    ELSE queue_submit_tail(
             Ev([s EXCEPT !.submit.sent = "async"], "vn_async_vkQueueSubmit"),
             has_implicit_fencing)

vn_queue_submit(s, fail_waits, alloc_ok, renderer_ok, has_implicit_fencing) ==
    LET r == vn_queue_submission_prepare_submit(s, fail_waits, alloc_ok) IN
    IF r.result # "VK_SUCCESS"
    THEN Ev([r.s EXCEPT !.submit.result = r.result], "prepare_failed")
    ELSE IF r.s.submit.batch_count = 0
            /\ r.s.submit.fence_handle = VK_NULL_HANDLE
    THEN Ev([r.s EXCEPT !.submit.result = "VK_SUCCESS"], "no_op_submit")
    ELSE queue_send(r.s, renderer_ok, has_implicit_fencing)

\* vn_QueueSubmit and vn_QueueSubmit2 build the submission from their
\* arguments.
vn_QueueSubmit(s, batch_type) ==
    [s EXCEPT !.submit.state = "done",
              !.submit.batch_type = batch_type,
              !.submit.batch_count = s.submit.submitCount,
              !.submit.batches = s.submit.pSubmits,
              !.submit.fence_handle = s.submit.fence]

\* ------------------------------------- the scene of a submission
\* A fence as vn_CreateFence leaves it, and an exportable fence after
\* vn_fence_signal_wsi.
CreatedFence(export, slot) ==
    [NoFence EXCEPT !.alive = TRUE, !.is_external = export,
                    !.feedback_slot = slot,
                    !.permanent.type = "DEVICE_ONLY"]
FenceKinds ==
    {CreatedFence(FALSE, FALSE), CreatedFence(FALSE, TRUE),
     CreatedFence(TRUE, FALSE),
     [CreatedFence(TRUE, FALSE) EXCEPT
         !.temporary = [type |-> "IMPORTED_SYNC_FD", fd |-> -1],
         !.payload = "temporary"]}
\* A semaphore as vn_CreateSemaphore leaves it.
CreatedSem(export) ==
    [NoSem EXCEPT !.alive = TRUE, !.is_external = export,
                  !.permanent.type = "DEVICE_ONLY"]
\* Semaphore 1 is internal and 2 exportable; 3 is internal and holds
\* descriptor 0 after vn_ImportSemaphoreFdKHR; 4 is exportable and holds
\* -1 after vn_semaphore_signal_wsi.
SceneSems ==
    [m \in SemIds |->
        CASE m = 1 -> CreatedSem(FALSE)
          [] m = 2 -> CreatedSem(TRUE)
          [] m = 3 -> [CreatedSem(FALSE) EXCEPT
                          !.temporary = [type |-> "IMPORTED_SYNC_FD",
                                         fd |-> 0],
                          !.payload = "temporary"]
          [] OTHER -> [CreatedSem(TRUE) EXCEPT
                          !.temporary = [type |-> "IMPORTED_SYNC_FD",
                                         fd |-> -1],
                          !.payload = "temporary"]]
\* The wait and the signal semaphore lists a batch of the scene may carry.
WaitLists == {<< >>, <<4, 1, 3>>}
SignalLists == {<< >>, <<1>>, <<1, 2>>, <<4>>}
SubmitInfos == [wait : WaitLists, signal : SignalLists, wsi : BOOLEAN]
\* pSubmits of submitCount n; the model puts the memory-signal info of
\* the window system on the first batch only.
SubmitArrays(n) ==
    {a \in [1 .. n -> SubmitInfos] : \A i \in 2 .. n : ~a[i].wsi}

\* The application has created fence 1 and the semaphores and is about to
\* call vkQueueSubmit or vkQueueSubmit2.
InitSubmit ==
    /\ InitEngine
    /\ num_L3_caches = 1 /\ set_context_param = FALSE
    /\ pin_thread_counter = 0
    /\ sems = SceneSems
    /\ fds = [k \in Fds |-> IF k = 0
                            THEN [UnusedFd EXCEPT !.st = "driver",
                                                  !.imports = 1]
                            ELSE UnusedFd]
    /\ NO_ASYNC_QUEUE_SUBMIT \in BOOLEAN
    /\ \E n \in 0 .. MaxSubmitBatches, h \in {VK_NULL_HANDLE, 1} :
       \E a \in SubmitArrays(n) :
           submit = [NoSubmit EXCEPT !.state = "args", !.submitCount = n,
                                     !.pSubmits = a, !.fence = h]
    \* the kind of fence 1 (a plain one when the call passes no fence)
    /\ \E k \in FenceKinds :
           /\ fences = [f \in FenceIds |-> IF f = 1 THEN k ELSE NoFence]
           /\ submit.fence = VK_NULL_HANDLE => k = CreatedFence(FALSE, FALSE)

QueueSubmitWith(batch_type) ==
    /\ submit.state = "args"
    /\ \E fail_waits \in SUBSET {3}, alloc_ok \in BOOLEAN,
          renderer_ok \in BOOLEAN, has_implicit_fencing \in BOOLEAN :
           Assign(vn_queue_submit(vn_QueueSubmit(S, batch_type), fail_waits,
                                  alloc_ok, renderer_ok,
                                  has_implicit_fencing))

QueueSubmit == QueueSubmitWith("VK_STRUCTURE_TYPE_SUBMIT_INFO")
QueueSubmit2 == QueueSubmitWith("VK_STRUCTURE_TYPE_SUBMIT_INFO_2")

NextSubmit == QueueSubmit \/ QueueSubmit2

SpecSubmit == InitSubmit /\ [][NextSubmit]_vars

\* C1: the commands are executed exactly once each, in the order they were
\* recorded, whether a batch is run by the worker or directly by finish; when
\* finish returns on the producer thread, and whenever the engine is disabled,
\* the executed sequence is the recorded sequence, as direct execution gives.
C1_RecordedOrderExactlyOnce ==
    /\ Len(exec) <= nrec
    /\ \A i \in 1 .. Len(exec) : exec[i] = i
    /\ "finish_return" \in ev => Len(exec) = nrec
    /\ (~enabled /\ AtApp) => Len(exec) = nrec

C1_Witness ==
    /\ "finish_return" \in ev /\ enabled /\ nrec = MaxCmds
    /\ Len(exec) = nrec
    /\ stats.num_offloaded_items > 0 /\ stats.num_direct_items > 0
    /\ stats.num_batches >= 3
\* C2: when finish returns on the producer thread of an enabled engine, every
\* submitted batch has run (all fences signalled, nothing queued, the worker
\* idle), the pending records have been executed and used is 0.
C2_FinishDrains ==
    ("finish_return" \in ev /\ "finish_disabled" \notin ev) =>
        /\ \A i \in Ring : batches[i].fence /\ batches[i].used = 0
        /\ queue = <<>>
        /\ pc["worker"] = "idle" /\ um["worker"] = NoFrame
        /\ um["main"] = NoFrame
        /\ used = 0
        /\ Len(exec) = nrec

C2_Witness ==
    /\ "finish_return" \in ev /\ "finish_waited" \in ev
    /\ enabled /\ stats.num_batches >= 2 /\ nrec >= 2

\* C3: ring reuse.  Whenever flush returns after submitting, the batch that
\* became current has a signalled fence and used = 0; the current batch is
\* never queued nor being executed by the worker.
JobsOf(i) == {k \in 1 .. Len(queue) : queue[k] = UnmarshalJob(i)}
WorkerRuns(i) == wjob = UnmarshalJob(i)

C3_RingReuseSafe ==
    /\ "flush_submit" \in ev =>
           /\ batches[next].fence /\ batches[next].used = 0
           /\ "record" \notin ev => batches[next].buffer = EmptyBuffer
    /\ enabled => (JobsOf(next) = {} /\ ~WorkerRuns(next))

C3_Witness ==
    /\ "flush_submit" \in ev /\ next = 0 /\ last = MARSHAL_MAX_BATCHES - 1
    /\ Len(queue) = max_jobs /\ pc["worker"] = "run"

\* C4: at most N-1 of the N batches are in flight (submitted, fence not yet
\* signalled), and a batch is in flight exactly while it is queued or with
\* the worker.
InFlight == {i \in Ring : ~batches[i].fence}

C4_AtMostNMinus1InFlight ==
    /\ Cardinality(InFlight) <= MARSHAL_MAX_BATCHES - 1
    /\ \A i \in Ring : (i \in InFlight) <=> (JobsOf(i) # {} \/ WorkerRuns(i))
    /\ \A i \in Ring : Cardinality(JobsOf(i)) <= 1

C4_Witness == Cardinality(InFlight) = MARSHAL_MAX_BATCHES - 1

\* C5: the two threads are never inside glthread_unmarshal_batch at the same
\* time.
Inside(t) == um[t].phase # "out"

C5_OneDecoderAtATime == ~(Inside("main") /\ Inside("worker"))

C5_Witness ==
    /\ Inside("main") /\ um["main"].phase = "decode" /\ um["main"].pos > 0
    /\ stats.num_offloaded_items > 0 /\ "finish_call_worker" \notin ev
    /\ stats.num_syncs > 0
EmptyFlushReturns ==
    /\ stack # <<>> /\ Head(stack) = [fn |-> "flush", used |-> 0]
    /\ "flush_return" \in ev'

C7_EmptyFlushNoOpAlways ==
    [][(("flush_call" \in ev' /\ enabled /\ used = 0) \/ EmptyFlushReturns) =>
          UNCHANGED <<enabled, next, last, stats, queue>>]_vars

\* C7 (amended): flush with used = 0 on an enabled engine whose context is not
\* lost changes nothing: no job submitted, enabled, next, last, the counters
\* and all other state as before.
C7_EmptyFlushNoOp ==
    [][("flush_call" \in ev' /\ enabled /\ used = 0 /\ ~lost) =>
          ("flush_empty" \in ev' /\ UNCHANGED state)]_vars

C7_Witness ==
    /\ "flush_empty" \in ev /\ enabled /\ used = 0
    /\ stats.num_offloaded_items > 0 /\ queue # <<>>

\* C8: finish with pending records runs them on the calling thread: from the
\* call to the return next, last, the queue's jobs and the offloaded counter
\* are not touched by the producer, the direct counter grows once, by the
\* pending used count, the batch run is the current one with that count, and
\* used is 0 from then on.
InFinish == pc["main"] \in {"fence_wait", "unmarshal"}
Offloaded == stats.num_offloaded_items
Direct == stats.num_direct_items

C8_FinishRunsPendingDirectly ==
    /\ [][("finish_call" \in ev' /\ enabled /\ used > 0) =>
             ("finish_direct" \in ev' \/ (pc'["main"] = "fence_wait" /\ used' = used))]_vars
    /\ [][(pc["main"] = "fence_wait" /\ pc'["main"] # "fence_wait" /\ used > 0) =>
             "finish_direct" \in ev']_vars
    /\ [][("finish_direct" \in ev') =>
             /\ used > 0 /\ used' = 0
             /\ Direct' = Direct + used
             /\ Offloaded' = Offloaded
             /\ next' = next /\ last' = last /\ queue' = queue
             /\ pc'["main"] = "unmarshal"
             /\ um'["main"].batch = next /\ um'["main"].used = used]_vars
    /\ [][InFinish =>
             /\ next' = next /\ last' = last /\ Offloaded' = Offloaded
             /\ Len(queue') <= Len(queue)
             /\ "finish_direct" \notin ev' => (Direct' = Direct /\ used' = used)
             /\ pc["main"] = "unmarshal" => used' = 0]_vars
    /\ []("finish_return" \in ev /\ enabled => used = 0)

C8_Witness ==
    /\ "finish_return" \in ev /\ "unmarshal_exit" \in ev /\ enabled
    /\ stats.num_direct_items = 8 /\ stats.num_offloaded_items > 0
    /\ used = 0

\* C9: finish called on the worker thread returns at once: nothing but the
\* history changes, and the worker goes on with its batch.
C9_WorkerFinishReturnsAtOnce ==
    /\ [][("finish_call_worker" \in ev') =>
             ("finish_self" \in ev' /\ UNCHANGED state)]_vars
    /\ []("finish_call_worker" \in ev =>
             ENABLED (UnmarshalStep("worker") \/ UnmarshalExit("worker")))

C9_Witness ==
    /\ "finish_self" \in ev /\ "finish_return_worker" \in ev
    /\ ~batches[last].fence /\ wjob = UnmarshalJob(last) /\ used > 0

\* C10: on a disabled engine flush, finish and destroy change nothing.
C10_DisabledCallsNoOp ==
    [][(ev' \cap {"flush_call", "finish_call", "destroy_call"} # {} /\ ~enabled) =>
          UNCHANGED state]_vars

C10_Witness ==
    /\ "destroy_disabled" \in ev /\ ~enabled /\ qstate = "destroyed"
    /\ stats.num_batches > 0

\* C11: flush on an enabled engine whose context is lost tears the engine down
\* instead of submitting: from the call to the return no job is added, no
\* fence is reset and the ring indices and the offloaded counter stay; on
\* return enabled is false and the queue is gone; every flush or finish call
\* after that changes nothing.
InLostFlush == \E k \in 1 .. Len(stack) : stack[k].fn = "flush"
FlushEntered == "flush_call" \in ev \/ "record_flush" \in ev

C11_LostFlushTearsDown ==
    /\ [][(FlushEntered' /\ enabled /\ lost) =>
             /\ "flush_lost" \in ev' /\ "flush_offload" \notin ev'
             /\ InLostFlush' /\ queue' = queue]_vars
    /\ [][InLostFlush =>
             /\ Len(queue') <= Len(queue)
             /\ \A i \in Ring : batches[i].fence => batches'[i].fence
             /\ next' = next /\ last' = last /\ Offloaded' = Offloaded
             /\ "flush_offload" \notin ev' /\ "flush_submit" \notin ev']_vars
    /\ [][(InLostFlush /\ "flush_return" \in ev') =>
             /\ ~enabled' /\ ~InLostFlush'
             /\ queue' = <<>> /\ qstate' = "destroyed"
             /\ pc'["worker"] = "exited"]_vars
    /\ [][(lost /\ qstate = "destroyed" /\
           ("flush_call" \in ev' \/ "finish_call" \in ev')) =>
             UNCHANGED state]_vars

C11_Witness ==
    /\ "flush_return" \in ev /\ "destroy_return" \in ev /\ "record" \notin ev
    /\ lost /\ ~enabled /\ stats.num_offloaded_items > 0
    /\ stats.num_direct_items > 0

\* C12: when the backend lacks either of the two capabilities, init changes
\* nothing: the engine stays disabled, no job queue and no worker thread
\* exist, no batch fence is initialised, no VAO table or marshal table is
\* allocated, the client dispatch is as before and no job is queued or run.
CapsMissing == "init_call" \in ev /\ ev \cap {"no_cap_unsync", "no_cap_mapped"} # {}

C12_UnsupportedInitAcquiresNothing ==
    /\ [][CapsMissing' => ("init_unsupported" \in ev' /\ UNCHANGED state)]_vars
    /\ [](CapsMissing =>
             /\ ~enabled /\ qstate = "none" /\ queue = <<>>
             /\ pc["worker"] = "none" /\ wjob = NoJob
             /\ \A i \in Ring : ~batches[i].fence_init
             /\ ~VAOs /\ ~MarshalExec
             /\ CurrentClientDispatch = "Exec"
             /\ ~glapi["worker"].context
             /\ AtApp)

C12_Witness ==
    /\ CapsMissing /\ "init_unsupported" \in ev
    /\ "no_cap_mapped" \in ev /\ "no_cap_unsync" \notin ev
    /\ ev \cap {"no_queue", "no_vaos", "no_table"} = {}
    /\ ~enabled /\ qstate = "none"

\* C13: when the job queue, the VAO table or the marshal table cannot be
\* allocated, init gives back what it had acquired: the VAO table is deleted,
\* the queue is destroyed once its worker has exited (no job ever ran on it),
\* no batch fence is initialised, enabled stays false and the client dispatch
\* is as before.
AllocationFails ==
    /\ "init_call" \in ev /\ ev \cap {"no_cap_unsync", "no_cap_mapped"} = {}
    /\ ev \cap {"no_queue", "no_vaos", "no_table"} # {}
NothingKept ==
    /\ ~enabled /\ ~VAOs /\ ~MarshalExec /\ queue = <<>>
    /\ \A i \in Ring : ~batches[i].fence_init
    /\ CurrentClientDispatch = "Exec"
    /\ ~glapi["worker"].context /\ wjob = NoJob

C13_FailedInitReleases ==
    /\ [][AllocationFails' =>
             /\ NothingKept' /\ CurrentClientDispatch' = CurrentClientDispatch
             /\ IF "no_queue" \in ev'
                THEN "init_no_queue" \in ev' /\ UNCHANGED state
                ELSE qstate' = "killed" /\ pc'["main"] = "init_unwind"]_vars
    /\ [](pc["main"] = "init_unwind" =>
             /\ NothingKept /\ qstate = "killed"
             /\ pc["worker"] \in {"idle", "exited"})
    /\ [][(pc["main"] = "init_unwind" /\ pc'["main"] # "init_unwind") =>
             /\ "init_unwound" \in ev' /\ NothingKept'
             /\ qstate' = "destroyed" /\ pc'["worker"] = "exited"
             /\ pc'["main"] = "app"]_vars

C13_Witness ==
    /\ "init_unwound" \in ev /\ qstate = "destroyed" /\ pc["worker"] = "exited"
    /\ NothingKept /\ AtApp

\* C14: a successful init is a barrier.  When it returns the engine is
\* enabled with used = 0, every batch fence is initialised and signalled, and
\* the thread-initialization job has run on the worker and signalled its
\* fence; that job runs only while init waits for it, so before any batch is
\* submitted, and the worker never decodes a batch without it.
C14_InitIsBarrier ==
    /\ "init_return" \in ev =>
           /\ enabled /\ used = 0 /\ AtApp
           /\ \A i \in Ring : batches[i].fence_init /\ batches[i].fence
           /\ glapi["worker"].context /\ init_fence
           /\ queue = <<>> /\ pc["worker"] = "idle" /\ wjob = NoJob
           /\ stats.num_batches = 0 /\ stats.num_offloaded_items = 0
    /\ "thread_initialization" \in ev =>
           /\ pc["main"] = "init_wait" /\ wjob = InitJob /\ ~init_fence
           /\ stats.num_batches = 0 /\ stats.num_offloaded_items = 0
    /\ (wjob # NoJob /\ wjob # InitJob) => glapi["worker"].context
    /\ (enabled /\ pc["main"] # "init_wait") =>
           glapi["worker"].context /\ init_fence

C14_Witness ==
    /\ "init_return" \in ev /\ enabled /\ glapi["worker"].context
    /\ used = 0 /\ \A i \in Ring : batches[i].fence

\* C15: destroy drains before it frees.  When it reaches util_queue_destroy,
\* and until the fences are destroyed, no batch is queued or with the worker,
\* every fence is signalled, every recorded command has been executed and
\* used is 0; when destroy returns the queue and the fences are gone, the
\* worker has exited and enabled is false.
Drained ==
    /\ queue = <<>> /\ wjob = NoJob
    /\ \A t \in Threads : um[t] = NoFrame
    /\ \A i \in Ring : batches[i].fence /\ batches[i].used = 0
    /\ used = 0 /\ Len(exec) = nrec

C15_DestroyDrainsFirst ==
    /\ "queue_destroy" \in ev =>
           Drained /\ enabled /\ pc["worker"] = "idle" /\ qstate = "killed"
    /\ pc["main"] = "queue_destroy" =>
           /\ Drained /\ pc["worker"] \in {"idle", "exited"}
           /\ \A i \in Ring : batches[i].fence_init
    /\ ("destroy_return" \in ev /\ "destroy_disabled" \notin ev) =>
           /\ Drained /\ ~enabled /\ qstate = "destroyed"
           /\ pc["worker"] = "exited"
           /\ \A i \in Ring : ~batches[i].fence_init

C15_Witness ==
    /\ "queue_destroy" \in ev /\ "finish_return" \in ev
    /\ "unmarshal_exit" \in ev /\ "flush_lost" \notin ev
    /\ stats.num_offloaded_items > 0 /\ stats.num_syncs > 0 /\ nrec >= 3

\* C16: when destroy returns on an engine that was enabled, the context's
\* client dispatch is its server dispatch (the table of a lost context if the
\* context is lost); the calling thread's table becomes that table if it was
\* the marshalling table and is left as it was otherwise; nothing else
\* touches the client dispatch while the engine is enabled.
DestroyReturns == "destroy_return" \in ev /\ "destroy_disabled" \notin ev
ActiveTable == glapi["main"].dispatch

C16_DestroyRestoresDispatch ==
    /\ [][DestroyReturns' =>
             /\ CurrentClientDispatch' = (IF lost THEN "ContextLost" ELSE "Exec")
             /\ lost' = lost
             /\ IF ActiveTable = "MarshalExec"
                THEN ActiveTable' = CurrentClientDispatch'
                ELSE ActiveTable' = ActiveTable
             /\ glapi'["worker"] = glapi["worker"]]_vars
    /\ [](enabled => CurrentClientDispatch = "MarshalExec")
    /\ []((~enabled /\ qstate = "destroyed") =>
             CurrentClientDispatch \in {"Exec", "ContextLost"})

C16_Witness ==
    /\ DestroyReturns /\ "dispatch_switched" \in ev /\ ~enabled
    /\ ActiveTable = "ContextLost" /\ CurrentClientDispatch = "ContextLost"
    /\ stats.num_batches > 0

\* C17: no cancellation.  The queue changes only by flush or init appending
\* one job and by the worker taking the oldest one, which it then runs; a
\* batch's fence is signalled only by the worker, after it has decoded that
\* batch to its end; a batch is never queued twice nor queued while it runs;
\* and under fair scheduling, whenever batches are in flight a state follows
\* in which every one of them has had its fence signalled.
C17_NoCancellation ==
    /\ [][queue' # queue =>
             \/ /\ \E job \in {InitJob} \cup {UnmarshalJob(i) : i \in Ring} :
                      queue' = Append(queue, job)
                /\ ev' \cap {"flush_submit", "init_enabled"} # {}
             \/ /\ queue # <<>> /\ queue' = Tail(queue)
                /\ wjob = NoJob /\ wjob' = Head(queue)
                /\ pc'["worker"] \in {"run", "signal"}
                /\ wjob'.fn = "glthread_unmarshal_batch" =>
                       /\ um'["worker"].phase = "enter"
                       /\ um'["worker"].batch = wjob'.batch
                       /\ um'["worker"].used = batches[wjob'.batch].used]_vars
    /\ [][\A i \in Ring : (~batches[i].fence /\ batches'[i].fence) =>
             /\ wjob = UnmarshalJob(i) /\ "fence_signal" \in ev'
             /\ pc["worker"] = "signal" /\ um["worker"] = NoFrame
             /\ batches[i].used = 0]_vars
    /\ [][(wjob # NoJob /\ wjob' # wjob) =>
             (wjob' = NoJob /\ "fence_signal" \in ev')]_vars
    /\ [][(wjob.fn = "glthread_unmarshal_batch" /\ pc["worker"] # "signal"
           /\ pc'["worker"] = "signal") =>
             /\ "unmarshal_exit" \in ev' /\ um["worker"].batch = wjob.batch
             /\ um["worker"].pos = um["worker"].used]_vars
    /\ [](\A i \in Ring : Cardinality(JobsOf(i)) + (IF WorkerRuns(i) THEN 1 ELSE 0) <= 1)
    /\ (InFlight # {}) ~> (InFlight = {})

C17_Witness ==
    /\ "fence_signal" \in ev /\ stats.num_batches >= 2
    /\ pc["main"] = "fence_wait" /\ stack # <<>> /\ Head(stack).fn = "destroy"
    /\ batches[last].fence /\ stats.num_offloaded_items >= 2

\* C18: no deadlock.  Whenever the producer is inside flush, finish or destroy
\* (parked for room in the queue, for the last batch's fence or for the
\* worker's exit, or decoding the pending records itself) it can go on or the
\* worker can, what it waits for is on its way, and under fair scheduling the
\* call returns.
InCall == pc["main"] \in {"add_job", "fence_wait", "unmarshal", "queue_destroy"}

C18_CallsReturn ==
    /\ [](InCall => ENABLED (ProducerResume \/ WorkerRun))
    /\ [](pc["main"] = "fence_wait" =>
             batches[last].fence \/ JobsOf(last) # {} \/ WorkerRuns(last))
    /\ [](pc["main"] = "add_job" =>
             /\ qstate = "alive" /\ pc["worker"] \in {"idle", "run", "signal"}
             /\ Len(queue) <= max_jobs)
    /\ [](pc["main"] = "queue_destroy" =>
             qstate = "killed" /\ pc["worker"] \in {"idle", "exited"})
    /\ InCall ~> AtApp

C18_Witness ==
    /\ pc["main"] = "fence_wait" /\ ~batches[last].fence
    /\ Len(queue) = max_jobs /\ pc["worker"] = "run"
    /\ stack # <<>> /\ Head(stack).fn = "destroy"

\* C19: the scenario of a 64-byte batch and three 32-byte commands A, B, C
\* recorded on a fresh engine (no batch completed, no other batch holding a
\* record, nothing synchronised before).
Cmd32(id) == [cmd_id |-> id, cmd_size |-> 4]
HoldsAB(i) ==
    /\ batches[i].used = 8
    /\ batches[i].buffer = [EmptyBuffer EXCEPT ![0] = Cmd32(nrec - 2),
                                               ![4] = Cmd32(nrec - 1)]
HoldsOnlyC ==
    /\ used = 4
    /\ batches[next].buffer = [EmptyBuffer EXCEPT ![0] = Cmd32(nrec)]
\* A and B submitted in one batch, C recorded, that batch not yet completed,
\* no further call made.
ScenarioSubmitted ==
    /\ enabled /\ AtApp /\ nrec >= 3 /\ last # next /\ HoldsAB(last) /\ HoldsOnlyC
    /\ \A i \in Ring \ {last, next} : batches[i].buffer = EmptyBuffer
    /\ stats.num_batches = 0 /\ Direct = 0 /\ stats.num_syncs = 0
WorkerCompletes == "unmarshal_exit" \in ev /\ pc["worker"] = "signal"

\* C19 (as claimed): once the worker has executed the batch [A,B] the
\* items-offloaded statistic has increased by 2.
C19_OffloadedGrowsByTwo ==
    [][(ScenarioSubmitted /\ WorkerCompletes') => Offloaded' = 2]_vars

\* C19 (amended): recording C with A and B filling the batch flushes before C
\* is encoded: the batch is submitted as it is, with used = 8 and the records
\* A and B, as the only job, and C is then the only record of the new current
\* batch (when flush has to wait for room C is not encoded until it has
\* submitted).  The items-offloaded statistic grows by the batch's used count,
\* 8 units for the 64 bytes of A and B, in the flush itself; the worker's
\* execution does not change it.
C19_ScenarioAutoFlush ==
    /\ [][("record_flush" \in ev' /\ ~lost) =>
             /\ used > 0 /\ "flush_offload" \in ev'
             /\ Offloaded' = Offloaded + used
             /\ batches'[next].used = used
             /\ batches'[next].buffer = batches[next].buffer
             /\ IF "record" \in ev'
                THEN /\ "flush_submit" \in ev'
                     /\ queue' = Append(queue, UnmarshalJob(next))
                     /\ last' = next /\ next' # next /\ nrec' = nrec + 1
                     /\ used' \in CmdSizes
                     /\ batches'[next'].buffer =
                            [EmptyBuffer EXCEPT ![0] =
                                [cmd_id |-> nrec', cmd_size |-> used']]
                ELSE /\ pc'["main"] = "add_job" /\ nrec' = nrec
                     /\ used' = used /\ next' = next /\ queue' = queue]_vars
    /\ [](ScenarioSubmitted =>
             /\ Offloaded = 8
             /\ Len(queue) + (IF wjob = NoJob THEN 0 ELSE 1) = 1
             /\ Cardinality(JobsOf(last)) + (IF WorkerRuns(last) THEN 1 ELSE 0) = 1
             /\ ~batches[last].fence)
    /\ [][(ScenarioSubmitted /\ WorkerCompletes') =>
             /\ Offloaded' = 8 /\ Offloaded' = Offloaded
             /\ stats'.num_batches = 1 /\ Len(exec') = nrec - 1
             /\ HoldsOnlyC' /\ batches'[last].used = 0]_vars

C19_Witness ==
    /\ WorkerCompletes /\ wjob = UnmarshalJob(last) /\ enabled
    /\ nrec = 3 /\ exec = <<1, 2>> /\ HoldsOnlyC
    /\ stats.num_batches = 1 /\ Direct = 0 /\ Offloaded = 8
    /\ "flush_call" \notin ev

\* C20: a flush of an enabled engine, context not lost, used > 0.  In its
\* first step it adds used to the offloaded counter and stores used in
\* batches[next]; it then adds one job for batches[next] at the end of the
\* queue (at once, or after waiting for room with nothing changed meanwhile),
\* resets that batch's fence, sets last to the old next, next to
\* (old next + 1) mod N and used to 0 (a record that caused the flush then
\* starts the new batch at position 0).  No other batch's used or fence and
\* no other counter is touched.
OthersKept(i) ==
    \A j \in Ring \ {i} :
        batches'[j].used = batches[j].used /\ batches'[j].fence = batches[j].fence
Submits ==
    /\ "flush_submit" \in ev'
    /\ queue' = Append(queue, UnmarshalJob(next))
    /\ ~batches'[next].fence
    /\ last' = next /\ next' = (next + 1) % MARSHAL_MAX_BATCHES
    /\ IF "record" \in ev'
       THEN used' = batches'[next'].buffer[0].cmd_size /\ used' \in CmdSizes
       ELSE used' = 0
    /\ OthersKept(next) /\ enabled'
Parks ==
    /\ pc'["main"] = "add_job" /\ "flush_submit" \notin ev'
    /\ queue' = queue /\ last' = last /\ next' = next /\ used' = used
    /\ batches'[next].fence = batches[next].fence
    /\ OthersKept(next) /\ enabled'

C20_FlushAdvancesRing ==
    /\ [][(FlushEntered' /\ enabled /\ ~lost /\ used > 0) =>
             /\ "flush_offload" \in ev'
             /\ stats' = [stats EXCEPT !.num_offloaded_items = @ + used]
             /\ batches'[next].used = used
             /\ batches'[next].buffer = batches[next].buffer
             /\ IF Len(queue) < max_jobs THEN Submits ELSE Parks]_vars
    /\ [][(pc["main"] = "add_job" /\ pc'["main"] = "add_job") =>
             /\ UNCHANGED <<next, last, used, enabled>>
             /\ Offloaded' = Offloaded
             /\ batches'[next] = batches[next]
             /\ Len(queue') <= Len(queue)]_vars
    /\ [][(pc["main"] = "add_job" /\ pc'["main"] # "add_job") =>
             /\ Submits /\ stats' = stats
             /\ batches[next].used = used /\ batches'[next].used = used
             /\ batches'[next].buffer = batches[next].buffer]_vars

C20_Witness ==
    /\ "flush_call" \in ev /\ "flush_offload" \in ev /\ "flush_submit" \in ev
    /\ last = MARSHAL_MAX_BATCHES - 1 /\ next = 0 /\ used = 0
    /\ batches[last].used = 8 /\ ~batches[last].fence
    /\ stats.num_offloaded_items > 8
\* C21: while a record of a batch is decoded, the decoding thread holds the
\* buffer-object table's mutex and the texture mutex.  The table's mutex is
\* taken first and the texture mutex second, both before the first record;
\* both stay held over every record; they are given back, the texture mutex
\* first, only when no record is left.  Each flag is true exactly while its
\* mutex is held.
LocksHeld(t) == mutex.BufferObjects = t /\ mutex.TexMutex = t

LocksAndFlags ==
    /\ \A t \in Threads : um[t].phase = "decode" => LocksHeld(t)
    /\ BufferObjectsLocked <=> mutex.BufferObjects # "none"
    /\ TexturesLocked <=> mutex.TexMutex # "none"
    /\ mutex.TexMutex # "none" => mutex.BufferObjects = mutex.TexMutex

LockSteps(t) ==
    /\ (mutex.BufferObjects # t /\ mutex'.BufferObjects = t)
          => /\ um[t].phase = "enter" /\ um[t].pos = 0
             /\ mutex.TexMutex = "none" /\ mutex'.TexMutex = "none"
             /\ exec' = exec
    /\ (mutex.TexMutex # t /\ mutex'.TexMutex = t)
          => /\ mutex.BufferObjects = t /\ mutex'.BufferObjects = t
             /\ um[t].pos = 0 /\ exec' = exec
    /\ um'[t].pos > um[t].pos => LocksHeld(t) /\ LocksHeld(t)'
    /\ (mutex.BufferObjects = t /\ mutex'.BufferObjects # t)
          => /\ um[t].phase = "decode" /\ um[t].pos >= um[t].used
             /\ mutex.TexMutex = t /\ mutex'.TexMutex = "none"
             /\ {"tex_unlocked_first", "buffers_unlocked_last"} \subseteq ev'
             /\ ev' \cap {"tex_unlocked_last", "buffers_unlocked_first"} = {}
    /\ (mutex.TexMutex = t /\ mutex'.TexMutex # t)
          => um[t].pos >= um[t].used /\ "unmarshal_exit" \in ev'

C21_LocksHeldWhileDecoding ==
    /\ []LocksAndFlags
    /\ [][\A t \in Threads : LockSteps(t)]_vars

\* The worker is between two records of a batch, holding both mutexes.
C21_Witness ==
    /\ um["worker"].phase = "decode" /\ LocksHeld("worker")
    /\ 0 < um["worker"].pos /\ um["worker"].pos < um["worker"].used
    /\ BufferObjectsLocked /\ TexturesLocked

\* C22: a batch is a chain of whole records from offset 0 to its used count.
\* The decode loop starts at offset 0, decodes the record at its offset,
\* advances by the length the decode returns, so it visits every record once
\* in the order of encoding, and it ends with the offset equal to the used
\* count (the assertion of line 73).
RECURSIVE Encoded(_, _, _)
\* The commands encoded in buffer b from offset k up to offset u, in order.
Encoded(b, k, u) ==
    IF k >= u \/ b[k].cmd_size = 0 THEN <<>>
    ELSE <<b[k].cmd_id>> \o Encoded(b, k + b[k].cmd_size, u)

EndsWith(seq, tail) ==
    /\ Len(tail) <= Len(seq)
    /\ SubSeq(seq, Len(seq) - Len(tail) + 1, Len(seq)) = tail

WholeRecords(b, u) ==
    \A k \in 0 .. (u - 1) :
        b[k] # ZeroSlot =>
            /\ b[k].cmd_size > 0 /\ k + b[k].cmd_size <= u
            /\ \A j \in (k + 1) .. (k + b[k].cmd_size - 1) : b[j] = ZeroSlot

Decoding(t) ==
    LET f == um[t]
        b == batches[f.batch].buffer IN
    f.phase = "decode" =>
        /\ f.used = batches[f.batch].used /\ WholeRecords(b, f.used)
        /\ f.pos <= f.used
        /\ f.pos < f.used => b[f.pos] # ZeroSlot
        /\ EndsWith(exec, Encoded(b, 0, f.pos))
        /\ Encoded(b, 0, f.used) = Encoded(b, 0, f.pos) \o Encoded(b, f.pos, f.used)

DecodeSteps(t) ==
    LET f == um[t]
        b == batches[f.batch].buffer IN
    /\ (f.phase # "decode" /\ um'[t].phase = "decode") => um'[t].pos = 0
    /\ (f.phase = "decode" /\ um'[t].phase = "decode" /\ um'[t] # f)
          => /\ f.pos < f.used
             /\ um'[t].pos = f.pos + b[f.pos].cmd_size
             /\ exec' = Append(exec, b[f.pos].cmd_id)
    /\ (f.phase = "decode" /\ um'[t].phase = "out")
          => /\ f.pos = f.used
             /\ EndsWith(exec, Encoded(b, 0, f.used))
             /\ Len(Encoded(b, 0, f.used)) =
                    Cardinality({k \in 0 .. (f.used - 1) : b[k] # ZeroSlot})

C22_DecodeLoopEndsAtUsed ==
    /\ [](\A t \in Threads : Decoding(t))
    /\ [][\A t \in Threads : DecodeSteps(t)]_vars

\* The worker has decoded the two records of a batch and stands at its end.
C22_Witness ==
    LET f == um["worker"]
        b == batches[f.batch].buffer IN
    /\ f.phase = "decode" /\ f.pos = f.used /\ f.used = 8
    /\ b[0] # ZeroSlot /\ b[4] # ZeroSlot
    /\ EndsWith(exec, <<b[0].cmd_id, b[4].cmd_id>>)

\* C23: every execution of a batch, by the worker or directly by finish, ends
\* with the batch's used field at 0 and with num_batches one higher, and
\* nothing else changes num_batches.  Each submitting flush and each finish
\* that runs the pending batch directly adds one execution still to end, so
\* num_batches plus the executions still to end grows by one per such flush
\* or finish and by nothing else; when finish returns on the producer thread
\* no execution is left to end, hence num_batches is then the number of
\* submitting flushes plus the number of direct executions by finish.
ToRun ==
    Cardinality({k \in 1 .. Len(queue) :
                    queue[k].fn = "glthread_unmarshal_batch"})
        + Cardinality({t \in Threads : Inside(t)})

HandedOver(e) == Cardinality(e \cap {"flush_submit", "finish_direct"})

ExecutionEnds(t) == Inside(t) /\ um'[t].phase = "out"

C23_EachExecutionCountsOnce ==
    /\ [][\A t \in Threads :
             ExecutionEnds(t) =>
                 /\ batches'[um[t].batch].used = 0
                 /\ stats'.num_batches = stats.num_batches + 1]_vars
    /\ [][stats'.num_batches # stats.num_batches =>
             \E t \in Threads : ExecutionEnds(t)]_vars
    /\ [][stats'.num_batches + ToRun' =
             stats.num_batches + ToRun + HandedOver(ev')]_vars
    /\ []("finish_return" \in ev => ToRun = 0)

\* finish returns after it waited for a batch the worker ran and then ran
\* the pending batch itself: two batches completed.
C23_Witness ==
    /\ "finish_return" \in ev /\ "unmarshal_exit" \in ev
    /\ stats.num_syncs = 1 /\ stats.num_batches = 2 /\ stats.num_offloaded_items > 0
    /\ stats.num_direct_items > 0 /\ ToRun = 0

\* C24: when the execution of the batch with ring index i ends,
\* LastProgramChangeBatch and LastDListChangeBatchIndex each become -1 if
\* they held i, and keep their value if they held anything else, such as
\* the index the producer stored for the batch it is filling meanwhile; the
\* rest of the execution does not write them.
InvalidatedIfMatches(before, after, i) ==
    after = (IF before = i THEN -1 ELSE before)

C24_InvalidateIfMatches ==
    [][\A t \in Threads :
          /\ ExecutionEnds(t) =>
                /\ InvalidatedIfMatches(LastProgramChangeBatch,
                                        LastProgramChangeBatch', um[t].batch)
                /\ InvalidatedIfMatches(LastDListChangeBatchIndex,
                                        LastDListChangeBatchIndex', um[t].batch)
          /\ (Inside(t) /\ Inside(t)' /\ um'[t] # um[t]) =>
                /\ LastProgramChangeBatch' = LastProgramChangeBatch
                /\ LastDListChangeBatchIndex' = LastDListChangeBatchIndex]_vars

\* The worker has ended batch 0 while the producer, filling batch 1, had
\* stored 1 in LastProgramChangeBatch: it still holds 1.
C24_Witness ==
    /\ "unmarshal_exit" \in ev /\ pc["worker"] = "signal"
    /\ wjob = UnmarshalJob(0) /\ next = 1 /\ used > 0
    /\ LastProgramChangeBatch = 1 /\ LastDListChangeBatchIndex = -1

\* C25: a flush that submits a batch and a finish that executes the pending
\* batch directly return with LastCallList and LastBindBuffer at NULL (a
\* command whose recording made the flush may then be cached as the first
\* record of the new current batch).  So a cached record is always a record
\* of the current batch, one that has not been handed over for execution.
Caches == {LastCallList, LastBindBuffer}

InCurrentBatch(c) ==
    /\ enabled /\ c.batch = next /\ c.pos < used
    /\ batches[next].buffer[c.pos] # ZeroSlot
    /\ batches[next].fence /\ JobsOf(next) = {} /\ ~WorkerRuns(next)
    /\ \A t \in Threads : ~Inside(t) \/ um[t].batch # next

FreshRecord(c) ==
    /\ "record" \in ev /\ c = [batch |-> next, pos |-> 0]
    /\ used = batches[next].buffer[0].cmd_size

C25_CachesClearedOnHandOver ==
    /\ [](\A c \in Caches : c # NULL => InCurrentBatch(c))
    /\ []("flush_submit" \in ev => \A c \in Caches : c = NULL \/ FreshRecord(c))
    /\ []("finish_direct" \in ev => Caches = {NULL})
    /\ []("finish_return" \in ev => Caches = {NULL})

\* A flush has submitted a batch whose last glCallList or glBindBuffer record
\* was cached: nothing is cached any more.
C25_Witness ==
    /\ {"flush_call", "flush_submit", "caches_cleared"} \subseteq ev
    /\ Caches = {NULL} /\ batches[last].used > 0 /\ used = 0

\* C26: one finish call on the producer thread adds exactly 1 to num_syncs if
\* it waited for the fence of the last submitted batch or executed the
\* current batch directly, or both, and leaves num_syncs as it is if it did
\* neither.  A call that did either is one that did not return in the step
\* of its call; num_syncs changes nowhere but at the return of finish.
Syncs == stats.num_syncs

C26_SyncsCountsOncePerFinish ==
    /\ [][Syncs' # Syncs => "finish_return" \in ev']_vars
    /\ [][("finish_return" \in ev' /\ InFinish) => Syncs' = Syncs + 1]_vars
    /\ [][("finish_return" \in ev' /\ ~InFinish) => Syncs' = Syncs]_vars
    /\ [][InFinish' =>
             \/ InFinish
             \/ ("finish_wait" \in ev' /\ ~batches[last].fence)
             \/ ("finish_direct" \in ev' /\ used > 0)]_vars
    /\ [][(pc["main"] = "fence_wait" /\ pc'["main"] = "unmarshal") =>
             {"finish_waited", "finish_direct"} \subseteq ev']_vars

\* finish returns having only waited for the last submitted batch: one sync.
C26_Witness ==
    /\ {"finish_waited", "finish_return"} \subseteq ev /\ enabled
    /\ Syncs = 1 /\ stats.num_direct_items = 0 /\ stats.num_batches > 0

\* C27: the life of a batch's fence.  Every fence is signalled when init has
\* enabled the engine; a fence goes from signalled to unsignalled in the step
\* in which flush submits its batch, and in no other; it goes back to
\* signalled only by the worker, after the worker has decoded the batch to
\* its end and reset its used field to 0.  So a batch whose fence is
\* signalled is neither queued nor with the worker.
FenceFalls(i) == batches[i].fence /\ ~batches'[i].fence
FenceRises(i) == ~batches[i].fence /\ batches'[i].fence

C27_FenceLifecycle ==
    /\ []("init_enabled" \in ev => \A i \in Ring : batches[i].fence)
    /\ [][\A i \in Ring :
             FenceFalls(i) <=> ("flush_submit" \in ev' /\ i = next)]_vars
    /\ [][\A i \in Ring :
             FenceFalls(i) => /\ last' = i /\ batches'[i].used > 0
                              /\ JobsOf(i) = {} /\ JobsOf(i)' # {}]_vars
    /\ [][\A i \in Ring :
             FenceRises(i) => /\ "fence_signal" \in ev' /\ WorkerRuns(i)
                              /\ ~Inside("worker")
                              /\ batches[i].used = 0 /\ batches'[i].used = 0
                              /\ um["worker"].pos = um["worker"].used]_vars
    /\ [](\A i \in Ring : batches[i].fence => (JobsOf(i) = {} /\ ~WorkerRuns(i)))

\* The worker has run the one batch submitted so far and signalled its fence.
C27_Witness ==
    /\ "fence_signal" \in ev /\ enabled /\ InFlight = {} /\ last # next
    /\ stats.num_batches = 1 /\ stats.num_direct_items = 0
    /\ batches[last].used = 0

\* C28 as stated: in every state of an enabled engine glthread->used equals
\* the used field of the batch at index next.
C28_UsedIsAlias == enabled => used = batches[next].used

\* C28, amended: glthread->used is a count of its own.  The used field of the
\* current batch gets the count when the batch is handed over: by flush,
\* which waits for room in the queue with both equal, and by finish, which
\* sets glthread->used to 0 before it executes the batch, so that during the
\* direct execution the count is 0 and the batch's field is the number of
\* units being decoded.
C28_UsedIsHandedOver ==
    /\ Inside("main") =>
           /\ um["main"].batch = next /\ um["main"].used > 0
           /\ batches[next].used = um["main"].used /\ used = 0
    /\ pc["main"] = "add_job" => (batches[next].used = used /\ used > 0)
    /\ "finish_direct" \in ev => (used = 0 /\ batches[next].used > 0)

\* finish is executing the current batch: the count is 0, the batch's used
\* field is not.
C28_Witness ==
    /\ enabled /\ um["main"].phase = "decode" /\ um["main"].pos > 0
    /\ used = 0 /\ batches[next].used = 8

\* C29: glthread->pin_thread_counter grows by one in every flush that gets
\* past the enabled, context-lost and empty checks on a platform with more
\* than one L3 cache domain and a backend with set_context_param, and never
\* otherwise; the binding of the threads is attempted in such a flush exactly
\* when the incremented counter is a multiple of 128.  On a platform with one
\* domain or without set_context_param the counter keeps its value, no thread
\* is ever bound and the backend is never told a domain.
PinSupported == num_L3_caches > 1 /\ set_context_param
PinAttempted(e) == e \cap {"pinned", "pin_no_domain", "pin_no_cpu"} # {}
PassesChecks == "flush_offload" \in ev'

C29_PinEvery128thFlush ==
    /\ PinPeriod = 128
    /\ [][pin_thread_counter' =
             pin_thread_counter + (IF PassesChecks /\ PinSupported THEN 1 ELSE 0)]_vars
    /\ [][PinAttempted(ev') <=>
             /\ PassesChecks /\ PinSupported
             /\ pin_thread_counter' % 128 = 0]_vars
    /\ [][PassesChecks <=>
             (FlushEntered' /\ enabled /\ ~lost /\ used > 0)]_vars
    /\ [][(thread_affinity' # thread_affinity \/ pin_param' # pin_param) =>
             "pinned" \in ev']_vars
    /\ [](~PinSupported => (thread_affinity = AllCpus /\ pin_param = NoPin))
    /\ [][UNCHANGED <<num_L3_caches, set_context_param>>]_vars

\* The flush that brings the counter to 128 has submitted its batch and
\* bound the threads.
C29_Witness ==
    /\ pin_thread_counter = 128 /\ {"pinned", "flush_submit"} \subseteq ev
    /\ PinSupported /\ thread_affinity # AllCpus

\* C30: the binding never changes what the flush does.  Whether the CPU is
\* not known, its cache domain is not known, or the threads are bound, the
\* flush counts its units, hands the batch over and advances the ring, or
\* waits for room in the queue, as a flush without the binding does.  When
\* the threads are bound, the worker thread's affinity and the value given
\* to the backend are the cache domain of the CPU the caller runs on; when
\* they are not, both keep their values.
CallerCpu ==
    IF "on_unknown_cpu" \in ev' THEN -1
    ELSE IF "on_cpu_1" \in ev' THEN 1
    ELSE IF "on_cpu_2" \in ev' THEN 2 ELSE 0

C30_PinIsBestEffort ==
    /\ [][PinAttempted(ev') =>
             /\ stats' = [stats EXCEPT !.num_offloaded_items = @ + used]
             /\ batches'[next].used = used
             /\ batches'[next].buffer = batches[next].buffer
             /\ IF Len(queue) < max_jobs THEN Submits ELSE Parks]_vars
    /\ [][PinAttempted(ev') =>
             IF CallerCpu >= 0 /\ cpu_to_L3(CallerCpu) # U_CPU_INVALID_L3
             THEN /\ "pinned" \in ev'
                  /\ thread_affinity' = cpu_to_L3(CallerCpu)
                  /\ pin_param' = cpu_to_L3(CallerCpu)
             ELSE /\ "pinned" \notin ev'
                  /\ thread_affinity' = thread_affinity
                  /\ pin_param' = pin_param]_vars

\* The flush that was due to bind the threads ran on a CPU of no known cache
\* domain: the batch is submitted all the same, no thread is bound.
C30_Witness ==
    /\ {"pin_no_domain", "flush_submit", "on_cpu_2"} \subseteq ev
    /\ last # next /\ ~batches[last].fence
    /\ thread_affinity = AllCpus /\ pin_param = NoPin

\* C31: finish returns with the calling thread's dispatch table being the one
\* it was at the call.  A finish that returns in the step of its call and a
\* finish that waits leave the table alone; a finish that executes the
\* pending batch saves the thread's table before glthread_unmarshal_batch
\* makes the server table the thread's table, keeps the saved one during the
\* execution and makes it the thread's table again before it returns.
Table(t) == glapi[t].dispatch

C31_FinishKeepsDispatch ==
    /\ [][(AtApp /\ ev' \cap {"finish_call", "destroy"} # {}) =>
             \/ Table("main")' = Table("main")
             \/ /\ "finish_direct" \in ev' /\ dispatch' = Table("main")
                /\ Table("main")' = CurrentServerDispatch(S)]_vars
    /\ [][pc["main"] = "fence_wait" =>
             \/ Table("main")' = Table("main")
             \/ /\ "finish_direct" \in ev' /\ dispatch' = Table("main")
                /\ Table("main")' = CurrentServerDispatch(S)]_vars
    /\ [][(pc["main"] = "unmarshal" /\ pc'["main"] = "unmarshal") =>
             dispatch' = dispatch]_vars
    /\ [][(pc["main"] = "unmarshal" /\ pc'["main"] # "unmarshal") =>
             /\ "finish_return" \in ev'
             /\ Table("main")' = dispatch]_vars
    /\ [][("finish_return" \in ev' /\ pc["main"] # "unmarshal") =>
             Table("main")' = Table("main")]_vars

\* finish has executed the pending batch on a thread whose table is the
\* marshalling table, not the server table the execution ran with.
C31_Witness ==
    /\ {"finish_return", "unmarshal_exit"} \subseteq ev /\ AtApp /\ enabled
    /\ Table("main") = "MarshalExec" /\ CurrentServerDispatch(S) = "Exec"
    /\ stats.num_direct_items > 0

\* C32: a flush that finds the context lost while records are pending neither
\* drops nor queues them.  The finish of the teardown executes them on the
\* calling thread, at once or after its wait for the last submitted batch,
\* counting them as direct items; the offloaded counter and the queue get
\* nothing; and the engine is disabled only once they have all been executed.
PendingInLostFlush == InLostFlush /\ used > 0

RunsPendingDirectly ==
    /\ "finish_direct" \in ev'
    /\ Direct' = Direct + used /\ used' = 0
    /\ um'["main"].phase = "enter" /\ um'["main"].batch = next
    /\ um'["main"].used = used
    /\ batches'[next].buffer = batches[next].buffer

C32_LostFlushRunsPending ==
    /\ [][(FlushEntered' /\ enabled /\ lost /\ used > 0) =>
             /\ InLostFlush' /\ enabled' /\ queue' = queue
             /\ Offloaded' = Offloaded
             /\ \/ RunsPendingDirectly
                \/ /\ pc'["main"] = "fence_wait" /\ used' = used
                   /\ Direct' = Direct
                   /\ batches'[next].buffer = batches[next].buffer]_vars
    /\ [][PendingInLostFlush =>
             /\ pc["main"] = "fence_wait"
             /\ \/ RunsPendingDirectly
                \/ (UNCHANGED <<used, Direct, enabled>> /\ pc'["main"] = "fence_wait"
                    /\ batches'[next].buffer = batches[next].buffer)]_vars
    /\ [][InLostFlush =>
             /\ Offloaded' = Offloaded /\ Len(queue') <= Len(queue)
             /\ "flush_submit" \notin ev'
             /\ (enabled /\ ~enabled') =>
                    (used = 0 /\ ~Inside("main") /\ Len(exec) = nrec)]_vars
    /\ [](InLostFlush /\ Inside("main") => enabled)

\* The finish of the teardown is executing the records that were pending
\* when flush found the context lost.
C32_Witness ==
    /\ InLostFlush /\ lost /\ enabled /\ um["main"].phase = "decode"
    /\ um["main"].pos > 0 /\ Direct = um["main"].used
    /\ Len(exec) < nrec

\* C33: the ring indices.  next and last are ring indices in every state.
\* They are equal from the start until the first flush that submits; each
\* submitting flush sets last to the old next and next to its successor in
\* the ring, and nothing else writes either, so that next is the successor
\* of last ever after.  In particular finish, an empty flush and the worker's
\* execution of a batch leave both alone.
Successor(i) == (i + 1) % MARSHAL_MAX_BATCHES
RingIndicesKept == next' = next /\ last' = last

C33_RingIndices ==
    /\ [](next \in Ring /\ last \in Ring)
    /\ [](next = last \/ next = Successor(last))
    /\ []("init_enabled" \in ev => next = last)
    /\ [][IF "flush_submit" \in ev'
          THEN last' = next /\ next' = Successor(next)
          ELSE RingIndicesKept]_vars
    /\ [][next = Successor(last) => next' = Successor(last')]_vars
    /\ [][(InFinish \/ um'["worker"] # um["worker"] \/ wjob' # wjob
           \/ ev' \cap {"finish_call", "flush_empty", "finish_return"} # {})
          => RingIndicesKept]_vars

\* finish returns after the ring has wrapped around: next is 0 again, last
\* is the highest index.
C33_Witness ==
    /\ "finish_return" \in ev /\ enabled /\ stats.num_syncs > 0
    /\ next = 0 /\ last = MARSHAL_MAX_BATCHES - 1

\* C34: the fences are signalled in the order of submission.  The batches in
\* flight are the last submitted one and those submitted just before it,
\* without a gap, and the fence that gets signalled is that of the oldest of
\* them.  Hence, in every state, if the fence of batches[last] is signalled
\* then every fence of the ring is, no batch is queued and the worker runs
\* none: waiting for the last submitted batch is enough.
\* How many submissions ago batch j was submitted (0: the last one).
Age(j) == (last - j + MARSHAL_MAX_BATCHES) % MARSHAL_MAX_BATCHES

C34_LastFenceCoversAll ==
    /\ [](batches[last].fence =>
             /\ \A i \in Ring : batches[i].fence
             /\ \A i \in Ring : JobsOf(i) = {} /\ ~WorkerRuns(i)
             /\ ~Inside("worker"))
    /\ [](\A j \in InFlight, k \in Ring : Age(k) < Age(j) => k \in InFlight)
    /\ [][\A i \in Ring :
             FenceRises(i) => \A j \in InFlight : Age(j) <= Age(i)]_vars
    /\ [][(pc["main"] = "fence_wait" /\ pc'["main"] # "fence_wait") =>
             (InFlight = {} /\ pc["worker"] = "idle")]_vars

\* Two batches were submitted and the worker has signalled the fence of the
\* second: no fence is left unsignalled.
C34_Witness ==
    /\ "fence_signal" \in ev /\ batches[last].fence /\ enabled
    /\ stats.num_batches = 2 /\ stats.num_direct_items = 0
    /\ InFlight = {} /\ last = 1

\* C35: conservation of the statistics.  Whenever the producer thread is in
\* no operation of the engine, num_offloaded_items + num_direct_items +
\* glthread->used is the number of buffer units recorded so far.  A unit is
\* counted once: num_offloaded_items grows only in a flush, by the used
\* count of the batch it hands over, num_direct_items only in a finish, by
\* the used count of the batch it executes, and the used count starts again
\* at 0 with the hand-over (a flush that waits for room in the queue has
\* counted its units and still holds them in used until the job is added).
Pending == IF pc["main"] = "add_job" THEN 0 ELSE used

C35_StatsConservation ==
    /\ [](AtApp => Offloaded + Direct + used = nunits)
    /\ [](Offloaded + Direct + Pending = nunits)
    /\ [][Offloaded' # Offloaded =>
             /\ "flush_offload" \in ev' /\ used > 0
             /\ Offloaded' = Offloaded + used /\ Direct' = Direct
             /\ Pending' \in {0} \cup (IF "record" \in ev' THEN CmdSizes ELSE {})]_vars
    /\ [][Direct' # Direct =>
             /\ "finish_direct" \in ev' /\ used > 0
             /\ Direct' = Direct + used /\ Offloaded' = Offloaded
             /\ used' = 0]_vars
    /\ [][nunits' # nunits =>
             /\ "record" \in ev' /\ nunits' - nunits \in CmdSizes
             /\ used' = (IF "flush_submit" \in ev' THEN 0 ELSE used)
                            + (nunits' - nunits)]_vars

\* Between two calls: units were offloaded by a flush, others executed
\* directly by a finish, and records are pending again.
C35_Witness ==
    /\ AtApp /\ enabled /\ Offloaded > 0 /\ Direct > 0 /\ used > 0
    /\ nunits = Offloaded + Direct + used

\* C37: the payloads of a fence.  Whatever vkCreateFence,
\* vkImportFenceFdKHR, vn_fence_signal_wsi, vkResetFences, vkGetFenceFdKHR
\* and vkDestroyFence did so far, every fence has a permanent payload of
\* type DEVICE_ONLY; its active payload is the temporary one exactly when
\* the temporary payload has type IMPORTED_SYNC_FD, and otherwise the
\* active payload is the permanent one and the temporary payload has type
\* INVALID.  A reset and a successful export of a descriptor leave the
\* fence on its permanent payload.
OnPermanent(f) ==
    /\ fences[f].payload = "permanent"
    /\ fences[f].temporary.type = "INVALID"

OnTemporary(f) ==
    /\ fences[f].payload = "temporary"
    /\ fences[f].temporary.type = "IMPORTED_SYNC_FD"

Exported(f) ==
    {On("get_fence_fd_created", f), On("get_fence_fd_moved", f)} \cap ev # {}

C37_FencePayloads ==
    /\ [](\A f \in Alive :
            /\ fences[f].permanent.type = "DEVICE_ONLY"
            /\ fences[f].payload = "temporary"
                   <=> fences[f].temporary.type = "IMPORTED_SYNC_FD"
            /\ OnPermanent(f) \/ OnTemporary(f))
    /\ []("assert_failed" \notin ev)
    /\ [][\A f \in FenceIds :
            /\ On("reset_fence", f) \in ev' => OnPermanent(f)'
            /\ Exported(f)' => OnPermanent(f)'
            /\ On("create_fence", f) \in ev' => OnPermanent(f)'
            /\ {On("import_fence_fd", f), On("fence_signal_wsi", f)}
                   \cap ev' # {} => OnTemporary(f)'
            /\ {On("import_invalid_handle", f), On("get_fence_fd_failed", f)}
                   \cap ev' # {} => fences'[f] = fences[f]]_vars

\* A fence whose imported descriptor was exported again, and a fence that
\* was reset while it held an imported descriptor.
C37_Witness ==
    /\ \E f \in Alive : On("get_fence_fd_moved", f) \in ev /\ OnPermanent(f)
    /\ \E k \in Fds : fds[k].closes = 1 /\ fds[k].imports = 1
    /\ \E k \in Fds : fds[k].exports = 1 /\ fds[k].imports = 1

\* C38: who owns an imported sync descriptor.  A descriptor imported into
\* the temporary payload of a fence is held by exactly one fence until it
\* is disposed of, and it is disposed of once: either a payload release
\* (in vkResetFences, a further import, vn_fence_signal_wsi or
\* vkDestroyFence) closes it, or vkGetFenceFdKHR hands it to the caller,
\* never both and never a second close.  A descriptor the caller owns is
\* never closed by the driver, so the reset inside and after
\* vkGetFenceFdKHR leaves the descriptor it handed out open.
Holders(k) ==
    {f \in Alive : fences[f].temporary = [type |-> "IMPORTED_SYNC_FD",
                                          fd |-> k]}

Releases ==
    {"reset_fence", "import_fence_fd", "fence_signal_wsi", "destroy_fence"}

C38_FdDisposedOnce ==
    /\ [](\A k \in Fds :
            /\ fds[k].closes <= 1 /\ fds[k].closes + fds[k].exports <= 1
            /\ fds[k].imports = 0 => fds[k].closes = 0 /\ Holders(k) = {}
            /\ fds[k].imports = 1 =>
                   \/ /\ Cardinality(Holders(k)) = 1 /\ fds[k].st = "driver"
                      /\ fds[k].closes + fds[k].exports = 0
                   \/ /\ Holders(k) = {}
                      /\ fds[k].closes + fds[k].exports = 1
                      /\ fds[k].st = (IF fds[k].closes = 1 THEN "closed"
                                                           ELSE "app"))
    /\ [][\A k \in Fds :
            /\ fds'[k].closes # fds[k].closes =>
                   /\ Releases \cap ev' # {}
                   /\ "get_fence_fd_moved" \notin ev'
                   /\ Holders(k) # {} /\ Holders(k)' = {}
            /\ fds'[k].exports # fds[k].exports /\ fds[k].imports = 1 =>
                   /\ "get_fence_fd_moved" \in ev'
                   /\ Holders(k) # {} /\ Holders(k)' = {}
                   /\ fds'[k].closes = fds[k].closes
            /\ fds[k].st = "app" => fds'[k] = fds[k]]_vars

\* A descriptor that was imported and handed out again stays open through
\* a later reset of the fences, while another imported one was closed.
C38_Witness ==
    /\ "reset_fence" \in ev /\ "get_fence_fd_moved" \notin ev
    /\ \E k \in Fds : /\ fds[k].imports = 1 /\ fds[k].exports = 1
                      /\ fds[k].closes = 0 /\ fds[k].st = "app"
    /\ \E k \in Fds : fds[k].imports = 1 /\ fds[k].closes = 1

\* C36: how vn_queue_submit sends.  As stated: the submission goes to the
\* renderer synchronously whenever its fence is external, or it has one
\* batch and that batch carries the memory-signal info of the window
\* system, or a signal semaphore of one of its batches is external; when
\* none of these holds and NO_ASYNC_QUEUE_SUBMIT is off it goes
\* asynchronously; a submission of no batch and no fence sends nothing and
\* succeeds.
FenceExternal ==
    submit.fence # VK_NULL_HANDLE /\ fences[submit.fence].is_external

WsiSingle == submit.submitCount = 1 /\ submit.pSubmits[1].wsi

SignalExternal ==
    \E i \in 1 .. submit.submitCount :
        \E j \in DOMAIN submit.pSubmits[i].signal :
            sems[submit.pSubmits[i].signal[j]].is_external

MustBeSync == FenceExternal \/ WsiSingle \/ SignalExternal

NoOpSubmit == submit.submitCount = 0 /\ submit.fence = VK_NULL_HANDLE

Submitted == submit.state = "done"

C36_SyncWhenever ==
    Submitted =>
        /\ MustBeSync => submit.sent = "sync"
        /\ ~MustBeSync /\ ~NO_ASYNC_QUEUE_SUBMIT /\ ~NoOpSubmit
               => submit.sent = "async"
        /\ NoOpSubmit =>
               submit.sent = "none" /\ submit.result = "VK_SUCCESS"

\* C36, as the code has it: the three rules hold for a submission whose
\* preparation succeeds.  The preparation fails, and nothing is sent, when
\* the wait on the sync file of a wait semaphore fails
\* (VK_ERROR_DEVICE_LOST) or when the batch array for the feedback of the
\* fence cannot be allocated (VK_ERROR_OUT_OF_HOST_MEMORY).  With
\* NO_ASYNC_QUEUE_SUBMIT on, every prepared submission that is not empty
\* goes synchronously.
Prepared == "prepare_failed" \notin ev

\* A wait semaphore of the submission holds an imported sync file.
WaitsOnSyncFile ==
    \E i \in 1 .. submit.submitCount :
        \E j \in DOMAIN submit.pSubmits[i].wait :
            SceneSems[submit.pSubmits[i].wait[j]].temporary.fd >= 0
            /\ SceneSems[submit.pSubmits[i].wait[j]].payload = "temporary"

FenceHasFeedback ==
    submit.fence # VK_NULL_HANDLE /\ fences[submit.fence].feedback_slot

C36_SyncWhenPrepared ==
    Submitted =>
        /\ Prepared /\ MustBeSync =>
               submit.sent = "sync" /\ submit.synchronous
        /\ Prepared /\ ~MustBeSync /\ ~NoOpSubmit =>
               /\ ~submit.synchronous
               /\ submit.sent = (IF NO_ASYNC_QUEUE_SUBMIT THEN "sync"
                                                          ELSE "async")
        /\ NoOpSubmit =>
               /\ Prepared
               /\ submit.sent = "none" /\ submit.result = "VK_SUCCESS"
        /\ ~Prepared =>
               /\ submit.sent = "none"
               /\ \/ submit.result = "VK_ERROR_DEVICE_LOST"
                     /\ WaitsOnSyncFile
                  \/ submit.result = "VK_ERROR_OUT_OF_HOST_MEMORY"
                     /\ FenceHasFeedback
        /\ "assert_failed" \notin ev

\* Two batches and an internal fence; the second batch signals an
\* exportable semaphore after an internal one, and the submission went
\* synchronously though NO_ASYNC_QUEUE_SUBMIT is off.
C36_Witness ==
    /\ Submitted /\ Prepared /\ ~NO_ASYNC_QUEUE_SUBMIT
    /\ submit.submitCount = 2 /\ ~FenceExternal /\ ~WsiSingle
    /\ submit.pSubmits[1].signal = <<1>>
    /\ submit.pSubmits[2].signal = <<1, 2>>
    /\ submit.sent = "sync" /\ submit.result = "VK_SUCCESS"

====
